---- MODULE Spec2Model ----
(***************************************************************************)
(* Model of the logging utility of pgtask20 (src/_logging/pg_logger.py):   *)
(* the PGLogger registry and PGLoggerSingleton under concurrent callers,   *)
(* the log_method call-instrumentation decorator, the bind_logger          *)
(* logger-binding decorator, JsonFormatter, error_logger and the level     *)
(* filtering of log calls on the configured loggers.                       *)
(*                                                                         *)
(* Logger objects are the objects of the standard logging facility: the    *)
(* facility keeps one object per name (mgr), created by the first          *)
(* logging.getLogger(name).  An object is identified by the integer id it  *)
(* got at creation; id 0 stands for None.                                  *)
(***************************************************************************)
EXTENDS Integers, Sequences, FiniteSets, TLC

VARIABLES
    loggers,    \* PGLogger._loggers: name -> id of the cached logger, 0 = absent
    mgr,        \* logging facility's loggerDict: name -> id, 0 = not created
    obj,        \* id -> state of the logger object (level, propagate, handlers)
    lock,       \* PGLogger._lock (RLock): [owner, count]
    instance,   \* PGLoggerSingleton._instance: id, 0 = None
    slock,      \* PGLoggerSingleton._lock (RLock): [owner, count]
    th,         \* per thread: position and locals of the call it is running
    hist,       \* observation of the calls made so far (not program state)
    lm,         \* the log_method wrapper call in progress / last completed
    bl,         \* the bind_logger wrapper call last completed
    jf,         \* the JsonFormatter.format call last completed
    el,         \* the error_logger call last completed
    em,         \* what the handlers have written, and the log calls made
    hd,         \* the Lambda handler invocation last completed
    aws,        \* the cloud resources: which of them exist
    dp          \* the deployment-script call in progress / last completed

regVars == <<loggers, mgr, obj, lock, instance, slock>>
vars == <<loggers, mgr, obj, lock, instance, slock, th, hist, lm, bl, jf, el, em,
          hd, aws, dp>>

(***************************************************************************)
(* Bounds                                                                  *)
(***************************************************************************)
NumThreads == 2
MaxCalls == 2

Threads == 1..NumThreads

\* Logger names the callers use; "pgtask" is PGLoggerSingleton's default name.
Names == {"svc", "pgtask"}

\* func.__module__ of the functions wrapped by log_method (line 261).
ModuleName == "app.service"

\* A logger the callers take from the logging facility directly, as a child
\* of "svc" (logging.getLogger("test_parent.child"), test_integration.py:75).
ChildName == "svc.child"

AllNames == Names \cup {ModuleName, ChildName}

NumObjs == Cardinality(AllNames)
Ids == 1..NumObjs

(***************************************************************************)
(* Configurations: the keyword arguments of PGLogger.get_logger that       *)
(* decide the construction.  max_bytes and backup_count are handed to the  *)
(* file handler unchanged and are left out.                                *)
(***************************************************************************)
DefaultConfig ==
    [log_level |-> "INFO", log_to_console |-> TRUE, log_to_file |-> FALSE,
     log_file_path |-> "", use_json_format |-> FALSE, propagate |-> FALSE]

Configs ==
    { DefaultConfig,
      [log_level |-> "WARNING", log_to_console |-> TRUE, log_to_file |-> TRUE,
       log_file_path |-> "app.log", use_json_format |-> TRUE, propagate |-> FALSE],
      [log_level |-> "DEBUG", log_to_console |-> FALSE, log_to_file |-> TRUE,
       log_file_path |-> "", use_json_format |-> FALSE, propagate |-> TRUE] }

\* PGLoggerSingleton.__new__ passes its own arguments on, log_to_file
\* defaulting to True and propagate left at get_logger's default.
SingletonConfig(level, path) ==
    [log_level |-> level, log_to_console |-> TRUE, log_to_file |-> TRUE,
     log_file_path |-> path, use_json_format |-> FALSE, propagate |-> FALSE]

SingletonConfigs ==
    { SingletonConfig("INFO", ""), SingletonConfig("DEBUG", "app.log") }

NoConfig ==
    [log_level |-> "NOTSET", log_to_console |-> FALSE, log_to_file |-> FALSE,
     log_file_path |-> "", use_json_format |-> FALSE, propagate |-> FALSE]

(***************************************************************************)
(* The logging facility                                                    *)
(***************************************************************************)
\* A logger object as logging.Logger.__init__ leaves it.
FreshObj == [level |-> "NOTSET", propagate |-> TRUE, handlers |-> <<>>]

\* logging.getLogger(name): the facility's object of that name, created on
\* the first request.
NewId(m) == 1 + Cardinality({n \in AllNames : m[n] # 0})

GetLoggerId(m, n) == IF m[n] # 0 THEN m[n] ELSE NewId(m)

(***************************************************************************)
(* PGLogger.get_logger, step by step                                       *)
(***************************************************************************)
\* threading.RLock: free, or held by the asking thread.
CanAcquireOpen(l, t) == TRUE

CanAcquire(l, t) == l.owner = 0 \/ l.owner = t

Acquire(l, t) == [owner |-> t, count |-> l.count + 1]

ReleaseNever(l) == l

Release(l) ==
    IF l.count = 1 THEN [owner |-> 0, count |-> 0]
    ELSE [owner |-> l.owner, count |-> l.count - 1]

\* line 116: if logger_name in cls._loggers
InCacheNever(n) == FALSE

InCache(n) == loggers[n] # 0

\* line 117: return cls._loggers[logger_name]
CachedLoggerOther(n) == (loggers[n] % NumObjs) + 1

CachedLogger(n) == loggers[n]

\* line 166: cls._loggers[logger_name] = logger
CachedAlone(reg, n, id) == [m \in DOMAIN reg |-> IF m = n THEN id ELSE 0]

Cached(reg, n, id) == [reg EXCEPT ![n] = id]

\* lines 123-130: clear the handlers, set level and propagation.
ConfiguredKeep(o, c) ==
    [o EXCEPT !.level = c.log_level, !.propagate = c.propagate]

Configured(o, c) ==
    [level |-> c.log_level, propagate |-> c.propagate, handlers |-> <<>>]

\* lines 133-136: the one formatter of the construction.
Formatter(c) == IF c.use_json_format THEN "json" ELSE "plain"

\* lines 139-142
WithConsole(o, c) ==
    IF c.log_to_console
    THEN [o EXCEPT !.handlers = Append(@, [kind |-> "console", fmt |-> Formatter(c), path |-> ""])]
    ELSE o

\* lines 146-149: the path of the file sink.
FilePath(n, c) == IF c.log_file_path = "" THEN "DEFAULT_LOG_DIR/" \o n \o ".log" ELSE c.log_file_path

\* lines 156-162
WithFile(o, n, c) ==
    [o EXCEPT !.handlers = Append(@, [kind |-> "file", fmt |-> Formatter(c), path |-> FilePath(n, c)])]

Idle == [pc |-> "idle", op |-> "none", name |-> "svc", cfg |-> NoConfig,
         logger |-> 0, ret |-> 0, raised |-> FALSE, first |-> FALSE]

NoLock == [owner |-> 0, count |-> 0]

HistInit ==
    [calls |-> 0,
     started |-> [n \in Names |-> 0],
     failed |-> [n \in Names |-> 0],
     inserted |-> [n \in Names |-> 0],
     returned |-> [n \in Names |-> {}],
     returns |-> [n \in Names |-> 0],
     raced |-> [n \in Names |-> FALSE],
     ctor |-> [n \in Names |-> NoConfig],
     hitDiff |-> FALSE,
     sreturned |-> {},
     scalls |-> 0]

NoError == [type |-> "", msg |-> ""]

NoOutcome == [kind |-> "none", val |-> "", err |-> NoError]

LmIdle ==
    [pc |-> "idle", level |-> "info", include_args |-> TRUE, include_return |-> FALSE,
     exclude_args |-> {}, qual |-> "", recv |-> 0, args |-> <<>>, kwargs |-> <<>>,
     logger |-> 0, log |-> <<>>, raising |-> NoError, outcome |-> NoOutcome]

NoneV == [t |-> "none", id |-> 0]

BlIdle ==
    [pc |-> "idle", setting |-> NoneV, args |-> <<>>, kwargs |-> <<>>, attrs |-> <<>>,
     kwout |-> <<>>, outcome |-> "none", bound |-> NoneV]

\* A log record as logging.LogRecord carries it: exc is "none" (exc_info
\* None), "error" (the triple of an error being handled, type etype and
\* string form emsg) or "empty" (the triple (None, None, None) that
\* exc_info=True gives when no error is being handled); extra is the
\* sequence of the [k, v] items of record.extra in order, has_extra whether
\* the record has the attribute at all.
NoRecord ==
    [name |-> "", levelname |-> "", filename |-> "", lineno |-> 0, message |-> "",
     exc |-> "none", etype |-> "", emsg |-> "", etb |-> FALSE,
     has_extra |-> FALSE, extra |-> <<>>]

JfIdle == [pc |-> "idle", record |-> NoRecord, outcome |-> "none", out |-> <<>>]

ElIdle ==
    [pc |-> "idle", logger |-> 0, mode |-> "critical", ignore_flag |-> TRUE,
     set_trace |-> FALSE, log |-> <<>>, stdout |-> <<>>, outcome |-> "none"]

EmInit == [sink |-> [i \in Ids |-> <<>>], calls |-> <<>>]

\* An API Gateway event: the httpMethod key ("absent": not in the event),
\* the body ("none", a JSON text, another text, or a value that is not a
\* string), and whether the event is a dict at all.
NoEvent == [is_dict |-> TRUE, httpMethod |-> "absent", body |-> "none"]

NoResponse == [statusCode |-> 0, error |-> "", request_id |-> ""]

HdIdle == [pc |-> "idle", event |-> NoEvent, has_request_id |-> TRUE, fault |-> "none",
           outcome |-> "none", response |-> NoResponse]

\* Nothing deployed yet.
AwsInit == [role |-> FALSE, repository |-> FALSE, function |-> FALSE]

DpIdle == [pc |-> "idle", op |-> "none", recreate |-> FALSE, existed |-> FALSE,
           look |-> "answer", faults |-> {}, steps |-> <<>>, reported |-> <<>>,
           calls |-> <<>>, outcome |-> "none"]

RegInit ==
    /\ loggers = [n \in AllNames |-> 0]
    /\ mgr = [n \in AllNames |-> 0]
    /\ obj = [i \in Ids |-> FreshObj]
    /\ lock = NoLock
    /\ instance = 0
    /\ slock = NoLock

Init ==
    /\ RegInit
    /\ th = [t \in Threads |-> Idle]
    /\ hist = HistInit
    /\ lm = LmIdle
    /\ bl = BlIdle
    /\ jf = JfIdle
    /\ el = ElIdle
    /\ em = EmInit
    /\ hd = HdIdle
    /\ aws = AwsInit
    /\ dp = DpIdle

\* A caller starts PGLogger.get_logger(name, **cfg) (also through
\* get_logger, get_json_logger and setup_log, lines 197-227 and 437-472).
GetLoggerCall(t, n, c) ==
    /\ th[t].pc = "idle"
    /\ hist.calls < MaxCalls
    /\ th' = [th EXCEPT ![t] = [Idle EXCEPT !.pc = "gl_lock", !.op = "get_logger",
                                            !.name = n, !.cfg = c,
                                            !.first = (loggers[n] = 0)]]
    /\ hist' = [hist EXCEPT !.calls = @ + 1]
    /\ UNCHANGED <<regVars, lm, bl, jf, el, em, hd, aws, dp>>

\* line 115: with cls._lock
GlAcquire(t) ==
    /\ th[t].pc = "gl_lock"
    /\ CanAcquire(lock, t)
    /\ lock' = Acquire(lock, t)
    /\ th' = [th EXCEPT ![t].pc = "gl_check"]
    /\ UNCHANGED <<loggers, mgr, obj, instance, slock, hist, lm, bl, jf, el, em, hd, aws, dp>>

\* Where a finished get_logger goes: back to the caller, or on in
\* PGLoggerSingleton.__new__ (line 186).
AfterGetLogger(r) == IF r.op = "singleton" THEN "s_assign" ELSE "idle"

\* Observation: get_logger(r.name) returned the object id.
NoteReturn(h, r, id) ==
    [h EXCEPT !.returned[r.name] = @ \cup {id}, !.returns[r.name] = @ + 1]

\* lines 148-156 raising: the thread leaves get_logger with the error.
OnFileErrorSwallow(r) == [r EXCEPT !.pc = "gl_cache"]

OnFileError(r) ==
    [r EXCEPT !.pc = IF r.op = "singleton" THEN "s_raise" ELSE "idle", !.raised = TRUE]

\* lines 116-117: the cache hit.
GlHit(t) ==
    /\ th[t].pc = "gl_check"
    /\ InCache(th[t].name)
    /\ th' = [th EXCEPT ![t].pc = AfterGetLogger(th[t]),
                        ![t].ret = CachedLogger(th[t].name)]
    /\ lock' = Release(lock)
    /\ hist' = [NoteReturn(hist, th[t], CachedLogger(th[t].name)) EXCEPT
                   !.hitDiff = @ \/ th[t].cfg # hist.ctor[th[t].name],
                   !.raced[th[t].name] = @ \/ th[t].first]
    /\ UNCHANGED <<loggers, mgr, obj, instance, slock, lm, bl, jf, el, em, hd, aws, dp>>

\* lines 120-130: the cache miss; the facility's logger is fetched, its
\* handlers cleared, level and propagation set.
GlCreate(t) ==
    /\ th[t].pc = "gl_check"
    /\ ~InCache(th[t].name)
    /\ LET n == th[t].name
           id == GetLoggerId(mgr, n)
       IN /\ mgr' = [mgr EXCEPT ![n] = id]
          /\ obj' = [obj EXCEPT ![id] = Configured(@, th[t].cfg)]
          /\ th' = [th EXCEPT ![t].pc = "gl_console", ![t].logger = id]
          /\ hist' = [hist EXCEPT !.started[n] = @ + 1]
    /\ UNCHANGED <<loggers, lock, instance, slock, lm, bl, jf, el, em, hd, aws, dp>>

\* lines 133-142
GlConsole(t) ==
    /\ th[t].pc = "gl_console"
    /\ obj' = [obj EXCEPT ![th[t].logger] = WithConsole(@, th[t].cfg)]
    /\ th' = [th EXCEPT ![t].pc = "gl_file"]
    /\ UNCHANGED <<loggers, mgr, lock, instance, slock, hist, lm, bl, jf, el, em, hd, aws, dp>>

\* lines 145-162 when the directory is made and the file opened.
GlFile(t) ==
    /\ th[t].pc = "gl_file"
    /\ obj' = [obj EXCEPT ![th[t].logger] =
                  IF th[t].cfg.log_to_file THEN WithFile(@, th[t].name, th[t].cfg) ELSE @]
    /\ th' = [th EXCEPT ![t].pc = "gl_cache"]
    /\ UNCHANGED <<loggers, mgr, lock, instance, slock, hist, lm, bl, jf, el, em, hd, aws, dp>>

\* lines 148, 154, 156: os.makedirs or RotatingFileHandler raises; the
\* error leaves the with block (the lock is released) and get_logger.
GlFileFails(t) ==
    /\ th[t].pc = "gl_file"
    /\ th[t].cfg.log_to_file
    /\ lock' = Release(lock)
    /\ th' = [th EXCEPT ![t] = OnFileError(@)]
    /\ hist' = [hist EXCEPT !.failed[th[t].name] = @ + 1]
    /\ UNCHANGED <<loggers, mgr, obj, instance, slock, lm, bl, jf, el, em, hd, aws, dp>>

\* lines 165-167
GlCache(t) ==
    /\ th[t].pc = "gl_cache"
    /\ loggers' = Cached(loggers, th[t].name, th[t].logger)
    /\ lock' = Release(lock)
    /\ th' = [th EXCEPT ![t].pc = AfterGetLogger(th[t]), ![t].ret = th[t].logger]
    /\ hist' = [NoteReturn(hist, th[t], th[t].logger) EXCEPT
                   !.inserted[th[t].name] = @ + 1,
                   !.ctor[th[t].name] = th[t].cfg]
    /\ UNCHANGED <<mgr, obj, instance, slock, lm, bl, jf, el, em, hd, aws, dp>>

(***************************************************************************)
(* PGLoggerSingleton.__new__, lines 177-194                                *)
(***************************************************************************)
\* line 185: if cls._instance is None
InstanceSetNever(i) == FALSE

InstanceSet(i) == i # 0

SingletonCall(t, n, c) ==
    /\ th[t].pc = "idle"
    /\ hist.calls < MaxCalls
    /\ th' = [th EXCEPT ![t] = [Idle EXCEPT !.pc = "s_lock", !.op = "singleton",
                                            !.name = n, !.cfg = c]]
    /\ hist' = [hist EXCEPT !.calls = @ + 1, !.scalls = @ + 1]
    /\ UNCHANGED <<regVars, lm, bl, jf, el, em, hd, aws, dp>>

\* line 184
SAcquire(t) ==
    /\ th[t].pc = "s_lock"
    /\ CanAcquire(slock, t)
    /\ slock' = Acquire(slock, t)
    /\ th' = [th EXCEPT ![t].pc = "s_check"]
    /\ UNCHANGED <<loggers, mgr, obj, lock, instance, hist, lm, bl, jf, el, em, hd, aws, dp>>

\* line 185, instance present; line 194
SReturn(t) ==
    /\ th[t].pc = "s_check"
    /\ InstanceSet(instance)
    /\ slock' = Release(slock)
    /\ th' = [th EXCEPT ![t].pc = "idle", ![t].ret = instance]
    /\ hist' = [hist EXCEPT !.sreturned = @ \cup {instance}]
    /\ UNCHANGED <<loggers, mgr, obj, lock, instance, lm, bl, jf, el, em, hd, aws, dp>>

\* lines 185-186, instance absent: PGLogger.get_logger is entered
SConstruct(t) ==
    /\ th[t].pc = "s_check"
    /\ ~InstanceSet(instance)
    /\ th' = [th EXCEPT ![t].pc = "gl_lock"]
    /\ UNCHANGED <<regVars, hist, lm, bl, jf, el, em, hd, aws, dp>>

\* lines 186, 194
SAssign(t) ==
    /\ th[t].pc = "s_assign"
    /\ instance' = th[t].ret
    /\ slock' = Release(slock)
    /\ th' = [th EXCEPT ![t].pc = "idle"]
    /\ hist' = [hist EXCEPT !.sreturned = @ \cup {th[t].ret}]
    /\ UNCHANGED <<loggers, mgr, obj, lock, lm, bl, jf, el, em, hd, aws, dp>>

\* the error of get_logger leaves the with block of line 184
SRaise(t) ==
    /\ th[t].pc = "s_raise"
    /\ slock' = Release(slock)
    /\ th' = [th EXCEPT ![t].pc = "idle"]
    /\ UNCHANGED <<loggers, mgr, obj, lock, instance, hist, lm, bl, jf, el, em, hd, aws, dp>>

Next ==
    \/ \E t \in Threads, n \in Names, c \in Configs : GetLoggerCall(t, n, c)
    \/ \E t \in Threads : GlAcquire(t)
    \/ \E t \in Threads : GlHit(t)
    \/ \E t \in Threads : GlCreate(t)
    \/ \E t \in Threads : GlConsole(t)
    \/ \E t \in Threads : GlFile(t)
    \/ \E t \in Threads : GlFileFails(t)
    \/ \E t \in Threads : GlCache(t)
    \/ \E t \in Threads, n \in Names, c \in SingletonConfigs : SingletonCall(t, n, c)
    \/ \E t \in Threads : SAcquire(t)
    \/ \E t \in Threads : SReturn(t)
    \/ \E t \in Threads : SConstruct(t)
    \/ \E t \in Threads : SAssign(t)
    \/ \E t \in Threads : SRaise(t)

Spec == Init /\ [][Next]_vars

\* The steps of thread t inside a call it has begun.
Step(t) ==
    \/ GlAcquire(t) \/ GlHit(t) \/ GlCreate(t) \/ GlConsole(t)
    \/ GlFile(t) \/ GlFileFails(t) \/ GlCache(t)
    \/ SAcquire(t) \/ SReturn(t) \/ SConstruct(t) \/ SAssign(t) \/ SRaise(t)

\* Every thread that can take a step is scheduled in the end; attaching
\* the file sink returns or raises (GlFile or GlFileFails).
SpecLive == Spec /\ \A t \in Threads : WF_vars(Step(t))

(***************************************************************************)
(* A whole call of PGLogger.get_logger by one caller, lines 112-167: the   *)
(* steps above in sequence.  ok says whether the directory can be made and *)
(* the log file opened.                                                    *)
(***************************************************************************)
GetLoggerResult(n, c, ok) ==
    IF InCache(n)
    THEN [loggers |-> loggers, mgr |-> mgr, obj |-> obj,
          ret |-> CachedLogger(n), raised |-> FALSE]
    ELSE LET id == GetLoggerId(mgr, n)
             o == WithConsole(Configured(obj[id], c), c)
         IN IF c.log_to_file /\ ~ok
            THEN [loggers |-> loggers, mgr |-> [mgr EXCEPT ![n] = id],
                  obj |-> [obj EXCEPT ![id] = o], ret |-> 0, raised |-> TRUE]
            ELSE [loggers |-> Cached(loggers, n, id),
                  mgr |-> [mgr EXCEPT ![n] = id],
                  obj |-> [obj EXCEPT ![id] = IF c.log_to_file THEN WithFile(o, n, c) ELSE o],
                  ret |-> id, raised |-> FALSE]

\* The caller's program makes a logger before it uses the decorators
\* (self.logger = get_logger(...)).
GetLoggerDone(n, c, ok) ==
    /\ lm.pc = "idle"
    /\ bl.pc = "idle"
    /\ el.outcome # "exit99"
    /\ LET r == GetLoggerResult(n, c, ok)
       IN /\ loggers' = r.loggers
          /\ mgr' = r.mgr
          /\ obj' = r.obj
    /\ UNCHANGED <<lock, instance, slock, th, hist, lm, bl, jf, el, em, hd, aws, dp>>

\* The configurations the callers' own loggers are made with.
SetupConfigs == {DefaultConfig, SingletonConfig("DEBUG", "app.log")}

\* The logger objects that exist.
Loggers == {i \in Ids : \E n \in AllNames : mgr[n] = i}

(***************************************************************************)
(* log_method, lines 230-308                                               *)
(*                                                                         *)
(* A call is args (the positional arguments, the receiver "self" first for *)
(* a method) and kwargs (the keyword arguments in the caller's order).     *)
(* A log entry is one call of a method of the logger: its severity, which  *)
(* message it is, and the rendered arguments as parts (key "" for a        *)
(* positional one, shown "***" for a redacted one).                        *)
(***************************************************************************)
\* The wrapped functions: a method and a plain function of the same
\* parameters (test_pg_logger.py:315-317).
Params == <<"username", "password">>

ArgVals == {"admin", "secret123"}

Errors == {[type |-> "ValueError", msg |-> "Test exception"],
           [type |-> "RuntimeError", msg |-> "secret123"]}

LevelArgs == {"debug", "info", "warning", "error", "critical",
              "WARNING", "verbose", "exception", "name"}

\* str.lower() on the level names used.
Lower(l) == IF l = "WARNING" THEN "warning" ELSE l

\* line 264: getattr(logger, level.lower(), logger.info): the severity the
\* member logs at; "exception" is logging.Logger.exception (error
\* severity), "name" is the logger's name, which is not callable.
LogFunc(level) ==
    CASE Lower(level) = "debug" -> "DEBUG"
      [] Lower(level) = "info" -> "INFO"
      [] Lower(level) = "warning" -> "WARNING"
      [] Lower(level) = "error" -> "ERROR"
      [] Lower(level) = "critical" -> "CRITICAL"
      [] Lower(level) = "exception" -> "ERROR"
      [] Lower(level) = "name" -> "notcallable"
      [] OTHER -> "INFO"

\* lines 251, 273: hasattr(args[0], "__class__"), true of every object.
HasClass(v) == TRUE

\* lines 253-257: the first attribute of args[0] that is a logger; a
\* receiver carries the logger recv (0: none), a string carries none.
FindLoggerAttrNone(v, recv) == 0

FindLoggerAttr(v, recv) == IF v = "self" THEN recv ELSE 0

\* lines 272-275: the positional arguments, the first one skipped.
RECURSIVE PosParts(_, _)
PosParts(args, i) ==
    IF i > Len(args) THEN <<>>
    ELSE IF i = 1 /\ HasClass(args[1]) THEN PosParts(args, i + 1)
    ELSE <<[key |-> "", shown |-> args[i]]>> \o PosParts(args, i + 1)

\* line 279: exclude_args and k in exclude_args
RedactedNever(k, ex) == FALSE

Redacted(k, ex) == ex # {} /\ k \in ex

\* lines 278-282
RECURSIVE KwParts(_, _, _)
KwParts(kwargs, ex, i) ==
    IF i > Len(kwargs) THEN <<>>
    ELSE <<[key |-> kwargs[i].k,
            shown |-> IF Redacted(kwargs[i].k, ex) THEN "***" ELSE kwargs[i].v]>>
         \o KwParts(kwargs, ex, i + 1)

\* lines 267-285
ArgParts(c) ==
    IF c.include_args THEN PosParts(c.args, 1) \o KwParts(c.kwargs, c.exclude_args, 1)
    ELSE <<>>

Entry(sev, kind, c, parts, text) ==
    [logger |-> c.logger, sev |-> sev, kind |-> kind, qual |-> c.qual,
     parts |-> parts, text |-> text]

\* The calls that bind every parameter of the wrapped function once:
\* p positional values, the other parameters by keyword in either order.
KwOrders(p) ==
    IF p = 2 THEN {<<>>}
    ELSE IF p = 1 THEN {<<"password">>}
    ELSE {<<"username", "password">>, <<"password", "username">>}

CallShapes ==
    { [args |-> a, kwargs |-> k] :
        a \in UNION {[1..p -> ArgVals] : p \in 0..Len(Params)},
        k \in UNION {[1..q -> [k : {"username", "password"}, v : ArgVals]] : q \in 0..2} }

WellFormed(sh) ==
    /\ Len(sh.args) <= Len(Params)
    /\ \E ord \in KwOrders(Len(sh.args)) :
          /\ Len(ord) = Len(sh.kwargs)
          /\ \A i \in 1..Len(ord) : sh.kwargs[i].k = ord[i]

Calls == {sh \in CallShapes : WellFormed(sh)}

\* lines 248-288: the wrapper is called; it resolves the logger, renders
\* the arguments and logs the entry.  method says whether the function is
\* a method, called on a receiver whose attribute logger is recv.
LmCall(level, ia, ir, ex, method, recv, sh) ==
    /\ LET args == IF method THEN <<"self">> \o sh.args ELSE sh.args
           found == IF args # <<>> /\ HasClass(args[1])
                    THEN FindLoggerAttr(args[1], recv) ELSE 0
           r == GetLoggerResult(ModuleName, DefaultConfig, TRUE)
           lg == IF found # 0 THEN found ELSE r.ret
           c == [lm EXCEPT !.level = level, !.include_args = ia, !.include_return = ir,
                           !.exclude_args = ex,
                           !.qual = IF method THEN "TestClass.sensitive_method" ELSE "login",
                           !.recv = recv, !.args = args, !.kwargs = sh.kwargs,
                           !.logger = lg]
       IN /\ IF found # 0
             THEN UNCHANGED <<loggers, mgr, obj>>
             ELSE /\ loggers' = r.loggers
                  /\ mgr' = r.mgr
                  /\ obj' = r.obj
          /\ lm' = IF LogFunc(level) = "notcallable"
                   THEN [c EXCEPT !.pc = "done",
                                  !.outcome = [kind |-> "raised", val |-> "",
                                               err |-> [type |-> "TypeError", msg |-> "not callable"]]]
                   ELSE [c EXCEPT !.pc = "running",
                                  !.log = <<Entry(LogFunc(level), "enter", c, ArgParts(c), "")>>]
    /\ UNCHANGED <<lock, instance, slock, th, hist, bl, jf, el, em, hd, aws, dp>>

\* lines 295-298: the exit message carries repr(result) iff include_return
ExitTextAlways(include_return, v) == v

ExitText(include_return, v) == IF include_return THEN v ELSE ""

\* lines 292-300: the function returns; the exit is logged and the result
\* handed back.
LmReturn(v) ==
    /\ lm.pc = "running"
    /\ lm' = [lm EXCEPT
                !.pc = "done",
                !.log = Append(@, Entry(LogFunc(lm.level), "exit", lm, <<>>,
                                        ExitText(lm.include_return, v))),
                !.outcome = [kind |-> "returned", val |-> v, err |-> NoError]]
    /\ UNCHANGED <<regVars, th, hist, bl, jf, el, em, hd, aws, dp>>

\* line 304: raise
ReraiseSwallowed(e) == [kind |-> "returned", val |-> "None", err |-> NoError]

Reraise(e) == [kind |-> "raised", val |-> "", err |-> e]

\* lines 301-304: the function raises an Exception whose str() is e; it is
\* logged with logger.exception and raised again.
LmRaise(e) ==
    /\ lm.pc = "running"
    /\ lm' = [lm EXCEPT
                !.pc = "done",
                !.raising = e,
                !.log = Append(@, Entry("ERROR", "exception", lm, <<>>, e.msg)),
                !.outcome = Reraise(e)]
    /\ UNCHANGED <<regVars, th, hist, bl, jf, el, em, hd, aws, dp>>

\* The caller goes on to its next call.
LmNext ==
    /\ lm.pc = "done"
    /\ lm' = LmIdle
    /\ UNCHANGED <<regVars, th, hist, bl, jf, el, em, hd, aws, dp>>

NextLog ==
    \/ \E c \in SetupConfigs, ok \in BOOLEAN : GetLoggerDone("svc", c, ok)
    \/ /\ lm.pc = "idle"
       /\ bl.pc = "idle"
       /\ \E level \in LevelArgs, ia \in BOOLEAN, ir \in BOOLEAN,
             ex \in {{}, {"password"}}, method \in BOOLEAN,
             recv \in Loggers \cup {0}, sh \in Calls :
               LmCall(level, ia, ir, ex, method, recv, sh)
    \/ \E v \in {"logged in"} : LmReturn(v)
    \/ \E e \in Errors : LmRaise(e)
    \/ LmNext

SpecLog == Init /\ [][NextLog]_vars

(***************************************************************************)
(* A whole call of PGLoggerSingleton(name, ...) by one caller, lines       *)
(* 184-194.                                                                *)
(***************************************************************************)
SingletonResult(n, c, ok) ==
    IF InstanceSet(instance)
    THEN [loggers |-> loggers, mgr |-> mgr, obj |-> obj, instance |-> instance,
          ret |-> instance, raised |-> FALSE]
    ELSE LET r == GetLoggerResult(n, c, ok)
         IN [loggers |-> r.loggers, mgr |-> r.mgr, obj |-> r.obj,
             instance |-> r.ret, ret |-> r.ret, raised |-> r.raised]

(***************************************************************************)
(* bind_logger, lines 380-433                                              *)
(*                                                                         *)
(* A value is a logger object (t = "logger", its id), a string, None, or   *)
(* a receiver object (t = "obj") whose __dict__ values are the call's      *)
(* attrs, in insertion order.  kwargs is the caller's keyword arguments in *)
(* order, as [k, v].                                                       *)
(***************************************************************************)
MaxAttrs == 2

\* func.__code__.co_varnames of the wrapped function (line 399): the shape
\* of test_func(arg, logger=None) and test_method(self, logger=None)
\* (test_pg_logger.py:380, 392) with one more optional parameter, so that
\* a call can carry loggers besides the target parameter's.
BindParams == <<"arg", "logger", "extra">>

\* variable_name, line 383
VariableName == "logger"

StrV == [t |-> "str", id |-> 0]

ObjV == [t |-> "obj", id |-> 0]

AutoV == [t |-> "auto", id |-> 0]

LoggerV(i) == [t |-> "logger", id |-> i]

\* isinstance(x, logging.Logger)
IsLogger(v) == v.t = "logger"

\* func_params.index(variable_name), 1-based; 0 when absent.
IndexOf(params, name) ==
    IF \E i \in 1..Len(params) : params[i] = name
    THEN CHOOSE i \in 1..Len(params) : params[i] = name
    ELSE 0

HasKey(kw, k) == \E i \in 1..Len(kw) : kw[i].k = k

\* kwargs.get(k)
KwGet(kw, k) ==
    IF HasKey(kw, k) THEN kw[CHOOSE i \in 1..Len(kw) : kw[i].k = k].v ELSE NoneV

\* kwargs[k] = v
KwSet(kw, k, v) ==
    IF HasKey(kw, k)
    THEN [i \in 1..Len(kw) |-> IF kw[i].k = k THEN [k |-> k, v |-> v] ELSE kw[i]]
    ELSE Append(kw, [k |-> k, v |-> v])

KwValues(kw) == [i \in 1..Len(kw) |-> kw[i].v]

LoggersIn(vals) == SelectSeq(vals, IsLogger)

\* line 400
SessionInArgs(args) ==
    /\ IndexOf(BindParams, VariableName) # 0
    /\ IndexOf(BindParams, VariableName) - 1 < Len(args)

\* line 401
SessionInKwargs(kwargs) == HasKey(kwargs, VariableName)

\* line 403: the caller's logger is looked for in kwargs alone.
AlreadyProvided(args, kwargs) ==
    /\ SessionInArgs(args) \/ SessionInKwargs(kwargs)
    /\ IsLogger(KwGet(kwargs, VariableName))

\* line 418: hasattr(first_args, "__dict__"); a logger object has one too,
\* but being in args itself it is found before anything its __dict__ holds.
HasDict(v) == v.t = "obj"

\* lines 410-421, the search order swapped
FoundLoggersArgsFirst(args, kwargs, attrs) ==
    LoggersIn(args) \o LoggersIn(KwValues(kwargs))
    \o (IF args # <<>> /\ HasDict(args[1]) THEN LoggersIn(attrs) ELSE <<>>)

\* lines 410-421: _logger_params
FoundLoggers(args, kwargs, attrs) ==
    LoggersIn(KwValues(kwargs)) \o LoggersIn(args)
    \o (IF args # <<>> /\ HasDict(args[1]) THEN LoggersIn(attrs) ELSE <<>>)

\* line 406: logger != "auto" and isinstance(logger, logging.Logger)
ExplicitLoggerNever(setting) == FALSE

ExplicitLogger(setting) == setting # AutoV /\ IsLogger(setting)

\* line 427: logger is not None
WantsDefaultAlways(setting) == TRUE

WantsDefault(setting) == setting # NoneV

\* Python's binding of func(*args, **kwargs): "multiple" when the target
\* parameter gets a positional and a keyword value (TypeError).
Binding(args, kw) ==
    IF HasKey(kw, VariableName) /\ SessionInArgs(args) THEN "TypeError"
    ELSE "called"

\* The value the function sees for the target parameter.
BoundValue(args, kw) ==
    IF SessionInArgs(args) THEN args[IndexOf(BindParams, VariableName)]
    ELSE KwGet(kw, VariableName)

\* The calls a caller can make of the function: every parameter at most
\* once, arg given (positionally or by keyword), a receiver only first.
Range(f) == {f[i] : i \in DOMAIN f}

KeySeqs ==
    { ks \in UNION { [1..q -> Range(BindParams)] : q \in 0..Len(BindParams) } :
        \A i, j \in 1..Len(ks) : i # j => ks[i] # ks[j] }

ValidBindCall(a, ks) ==
    /\ \A i \in 2..Len(a) : a[i] # ObjV
    /\ \A i \in 1..Len(ks) : IndexOf(BindParams, ks[i]) > Len(a)
    /\ Len(a) >= 1 \/ \E i \in 1..Len(ks) : ks[i] = "arg"

\* The values a caller has at hand: strings, None, the loggers made so far.
Values == {StrV, NoneV} \cup {LoggerV(i) : i \in Loggers}

\* lines 397-429: the wrapper is called.  ok says whether the default
\* logger's log file can be opened, should PGLoggerSingleton() construct.
BlCall(setting, args, kwargs, attrs, ok) ==
    LET found == FoundLoggers(args, kwargs, attrs)
        s == SingletonResult("pgtask", SingletonConfig("INFO", ""), ok)
        call == [bl EXCEPT !.pc = "done", !.setting = setting, !.args = args,
                           !.kwargs = kwargs, !.attrs = attrs]
        done(kw) == [call EXCEPT !.kwout = kw, !.outcome = Binding(args, kw),
                                 !.bound = IF Binding(args, kw) = "called"
                                           THEN BoundValue(args, kw) ELSE NoneV]
    IN IF AlreadyProvided(args, kwargs)
       THEN /\ bl' = done(kwargs)
            /\ UNCHANGED <<loggers, mgr, obj, instance>>
       ELSE IF ExplicitLogger(setting)
       THEN /\ bl' = done(KwSet(kwargs, VariableName, setting))
            /\ UNCHANGED <<loggers, mgr, obj, instance>>
       ELSE IF found # <<>>
       THEN /\ bl' = done(KwSet(kwargs, VariableName, found[1]))
            /\ UNCHANGED <<loggers, mgr, obj, instance>>
       ELSE IF ~WantsDefault(setting)
       THEN /\ bl' = done(KwSet(kwargs, VariableName, NoneV))
            /\ UNCHANGED <<loggers, mgr, obj, instance>>
       ELSE /\ loggers' = s.loggers
            /\ mgr' = s.mgr
            /\ obj' = s.obj
            /\ instance' = s.instance
            /\ bl' = IF s.raised
                     THEN [call EXCEPT !.kwout = kwargs, !.outcome = "raised"]
                     ELSE done(KwSet(kwargs, VariableName, LoggerV(s.ret)))

\* The caller goes on to its next call.
BlNext ==
    /\ bl.pc = "done"
    /\ bl' = BlIdle
    /\ UNCHANGED <<regVars, th, hist, lm, jf, el, em, hd, aws, dp>>

NextBind ==
    \/ \E n \in Names : GetLoggerDone(n, DefaultConfig, TRUE)
    \/ /\ bl.pc = "idle"
       /\ lm.pc = "idle"
       /\ \E p \in 0..Len(BindParams), ks \in KeySeqs :
             \E a \in [1..p -> Values \cup {ObjV}], vs \in [1..Len(ks) -> Values] :
                /\ ValidBindCall(a, ks)
                /\ \E attrs \in IF p >= 1 /\ a[1] = ObjV
                                THEN UNION { [1..q -> Values \ {NoneV}] : q \in 0..MaxAttrs }
                                ELSE {<<>>} :
                      \E setting \in {AutoV} \cup (Values \ {StrV}), ok \in BOOLEAN :
                         BlCall(setting, a, [i \in 1..Len(ks) |-> [k |-> ks[i], v |-> vs[i]]],
                                attrs, ok)
       /\ UNCHANGED <<lock, slock, th, hist, lm, jf, el, em, hd, aws, dp>>
    \/ BlNext

SpecBind == Init /\ [][NextBind]_vars

(***************************************************************************)
(* JsonFormatter.format, lines 48-71                                       *)
(*                                                                         *)
(* A JSON value is a string, an integer, an object (its items [k, v] in    *)
(* order), a list of strings, or a Python object json.dumps cannot         *)
(* serialize.  A dict is the sequence of its items in insertion order.     *)
(***************************************************************************)
MaxExtras == 2

JStr(x) == [t |-> "str", s |-> x, n |-> 0, obj |-> <<>>, list |-> <<>>]

JInt(x) == [t |-> "int", s |-> "", n |-> x, obj |-> <<>>, list |-> <<>>]

JObj(items) == [t |-> "obj", s |-> "", n |-> 0, obj |-> items, list |-> <<>>]

JList(xs) == [t |-> "list", s |-> "", n |-> 0, obj |-> <<>>, list |-> xs]

\* a value of a type json.dumps has no encoding for
JOpaque == [t |-> "object", s |-> "", n |-> 0, obj |-> <<>>, list |-> <<>>]

\* d[k] = v
DictSet(d, k, v) ==
    IF \E i \in 1..Len(d) : d[i].k = k
    THEN [i \in 1..Len(d) |-> IF d[i].k = k THEN [k |-> k, v |-> v] ELSE d[i]]
    ELSE Append(d, [k |-> k, v |-> v])

\* d.update(items), line 69
RECURSIVE DictUpdate(_, _)
DictUpdate(d, items) ==
    IF items = <<>> THEN d
    ELSE DictUpdate(DictSet(d, items[1].k, items[1].v), Tail(items))

DictHas(d, k) == \E i \in 1..Len(d) : d[i].k = k

DictGet(d, k) == d[CHOOSE i \in 1..Len(d) : d[i].k = k].v

\* self.formatTime(record, self.datefmt), line 52
FormatTime(r) == "2026-01-01 00:00:00,000"

\* traceback.format_exception(*record.exc_info), line 64: the header and
\* the frames when the error has a traceback, then the error's own line.
FormatException(r) ==
    (IF r.etb THEN <<"Traceback (most recent call last):", "  File test_file.py, line 42">>
     ELSE <<>>)
    \o <<r.etype \o ": " \o r.emsg>>

\* lines 49-57
FixedFields(r) ==
    << [k |-> "timestamp", v |-> JStr(FormatTime(r))],
       [k |-> "level", v |-> JStr(r.levelname)],
       [k |-> "logger", v |-> JStr(r.name)],
       [k |-> "file", v |-> JStr(r.filename)],
       [k |-> "line", v |-> JInt(r.lineno)],
       [k |-> "message", v |-> JStr(r.message)] >>

\* lines 60-65, for the triple of an error
WithException(d, r) ==
    DictSet(d, "exception",
            JObj(<< [k |-> "type", v |-> JStr(r.etype)],
                    [k |-> "message", v |-> JStr(r.emsg)],
                    [k |-> "traceback", v |-> JList(FormatException(r))] >>))

\* lines 68-69: the extras are merged last
WithExtra(d, r) ==
    IF r.has_extra /\ r.extra # <<>> THEN DictUpdate(d, r.extra) ELSE d

\* json.dumps(log_record), line 71: TypeError on a value it cannot encode
Serializable(d) == \A i \in 1..Len(d) : d[i].v.t # "object"

\* lines 48-71: the outcome and, when it is "json", the object written.
\* record.exc_info is tested for truth (line 60): the triple (None, None,
\* None) is true, and None has no __name__ (line 62).
Format(r) ==
    IF r.exc = "empty" THEN [outcome |-> "AttributeError", out |-> <<>>]
    ELSE LET d == WithExtra(IF r.exc = "error" THEN WithException(FixedFields(r), r)
                            ELSE FixedFields(r), r)
         IN IF Serializable(d) THEN [outcome |-> "json", out |-> d]
            ELSE [outcome |-> "TypeError", out |-> <<>>]

ExtraKeys == {"request_id", "level", "message", "exception"}

ExtraVals == {JStr("abc"), JOpaque}

Extras ==
    { x \in UNION { [1..q -> [k : ExtraKeys, v : ExtraVals]] : q \in 0..MaxExtras } :
        \A i, j \in 1..Len(x) : i # j => x[i].k # x[j].k }

\* The records the handlers hand to the formatter (test_pg_logger.py:38-67).
Records ==
    { [name |-> "test_logger", levelname |-> lv, filename |-> "test_file.py",
       lineno |-> 42, message |-> "Test message",
       exc |-> e.exc, etype |-> e.etype, emsg |-> e.emsg, etb |-> e.etb,
       has_extra |-> x.has, extra |-> x.items] :
        lv \in {"INFO", "ERROR"},
        e \in { [exc |-> "none", etype |-> "", emsg |-> "", etb |-> FALSE],
                [exc |-> "empty", etype |-> "", emsg |-> "", etb |-> FALSE],
                [exc |-> "error", etype |-> "ValueError", emsg |-> "Test exception", etb |-> TRUE],
                [exc |-> "error", etype |-> "ValueError", emsg |-> "Test exception", etb |-> FALSE] },
        x \in {[has |-> FALSE, items |-> <<>>]} \cup {[has |-> TRUE, items |-> i] : i \in Extras} }

\* A handler formats a record.
JfFormat(r) ==
    /\ jf.pc = "idle"
    /\ jf' = [pc |-> "done", record |-> r, outcome |-> Format(r).outcome, out |-> Format(r).out]
    /\ UNCHANGED <<regVars, th, hist, lm, bl, el, em, hd, aws, dp>>

\* The next record.
JfNext ==
    /\ jf.pc = "done"
    /\ jf' = JfIdle
    /\ UNCHANGED <<regVars, th, hist, lm, bl, el, em, hd, aws, dp>>

NextJson ==
    \/ \E r \in Records : JfFormat(r)
    \/ JfNext

SpecJson == Init /\ [][NextJson]_vars

(***************************************************************************)
(* error_logger, lines 336-377                                             *)
(*                                                                         *)
(* log is what the call emitted through the logger ([sev, text]), stdout   *)
(* what it printed; the outcome is "returned" (None), "exit99" (exit(99)   *)
(* raises SystemExit(99), which except Exception does not catch and which  *)
(* ends the process with status 99) or "ValueError".                       *)
(***************************************************************************)
\* lines 359-364: the keys of _logger_mode
SupportedModes == {"critical", "debug", "error", "info"}

\* the mode arguments the callers pass
ModeArgs == SupportedModes \cup {"warning", "verbose", "CRITICAL"}

\* lines 360-363: the severity of the logger method under each key
ModeSeverity(mode) ==
    CASE mode = "critical" -> "CRITICAL"
      [] mode = "debug" -> "DEBUG"
      [] mode = "error" -> "ERROR"
      [] mode = "info" -> "INFO"

\* line 375: return None if ignore_flag else exit(99), exit never called
AfterLoggingReturn(ignore_flag) == "returned"

AfterLogging(ignore_flag) == IF ignore_flag THEN "returned" ELSE "exit99"

\* lines 358-377: one call.  lg is the logger (0: None); a logger object is
\* true (line 358, 367).
ElResult(lg, mode, ignore_flag, set_trace) ==
    LET c == [el EXCEPT !.pc = "done", !.logger = lg, !.mode = mode,
                        !.ignore_flag = ignore_flag, !.set_trace = set_trace]
        msg == [sev |-> IF mode \in SupportedModes THEN ModeSeverity(mode) ELSE "",
                text |-> "Error in func_str addition_msg error"]
    IN IF lg # 0
       THEN IF mode \in SupportedModes
            THEN [c EXCEPT !.log = <<msg>> \o
                              (IF set_trace THEN <<[sev |-> "ERROR", text |-> "trace"]>>
                               ELSE <<>>),
                           !.outcome = AfterLogging(ignore_flag)]
            ELSE [c EXCEPT !.outcome = "ValueError"]
       ELSE [c EXCEPT !.stdout = <<msg.text>>,
                      !.outcome = AfterLogging(ignore_flag)]

ElCall(lg, mode, ignore_flag, set_trace) ==
    /\ el.pc = "idle"
    /\ el' = ElResult(lg, mode, ignore_flag, set_trace)
    /\ UNCHANGED <<regVars, th, hist, lm, bl, jf, em, hd, aws, dp>>

\* The caller's next call (of a process that went on).
ElNext ==
    /\ el.pc = "done"
    /\ el.outcome # "exit99"
    /\ el' = ElIdle
    /\ UNCHANGED <<regVars, th, hist, lm, bl, jf, em, hd, aws, dp>>

NextErr ==
    \/ \E n \in Names, c \in SetupConfigs, ok \in BOOLEAN : GetLoggerDone(n, c, ok)
    \/ \E lg \in Loggers \cup {0}, mode \in ModeArgs,
          ignore_flag \in BOOLEAN, set_trace \in BOOLEAN :
            ElCall(lg, mode, ignore_flag, set_trace)
    \/ ElNext

SpecErr == Init /\ [][NextErr]_vars

(***************************************************************************)
(* Log calls on the loggers, as the logging facility carries them out on   *)
(* the objects PGLogger.get_logger configured (level, line 127; propagate, *)
(* line 130; handlers, lines 142 and 162; the handlers' own level is never *)
(* set).  em.sink[i] is what the handlers attached to logger i have        *)
(* written, one entry per handler and record; em.calls the log calls made. *)
(***************************************************************************)
MaxEmits == 3

Severities == {"DEBUG", "INFO", "WARNING", "ERROR", "CRITICAL"}

LevelNo(l) ==
    CASE l = "NOTSET" -> 0
      [] l = "DEBUG" -> 10
      [] l = "INFO" -> 20
      [] l = "WARNING" -> 30
      [] l = "ERROR" -> 40
      [] l = "CRITICAL" -> 50

\* the root logger: level WARNING, no handlers of the callers'
RootLevel == "WARNING"

\* The parent of a logger in the facility's hierarchy: the logger of the
\* dotted prefix when it exists, else the root (0).
Parent(m, i) ==
    IF m[ChildName] = i /\ m["svc"] # 0 THEN m["svc"] ELSE 0

\* Logger.getEffectiveLevel: the first level set on the way to the root.
RECURSIVE EffectiveLevel(_, _, _)
EffectiveLevel(m, o, i) ==
    IF i = 0 THEN RootLevel
    ELSE IF o[i].level # "NOTSET" THEN o[i].level
    ELSE EffectiveLevel(m, o, Parent(m, i))

\* Logger.isEnabledFor
IsEnabledAlways(m, o, i, lv) == TRUE

IsEnabledFor(m, o, i, lv) == LevelNo(lv) >= LevelNo(EffectiveLevel(m, o, i))

\* One handler entry per handler of the logger.
Written(o, i, rec) ==
    [h \in 1..Len(o[i].handlers) |-> [handler |-> o[i].handlers[h], rec |-> rec]]

\* Logger.callHandlers: the logger's handlers, then its ancestors' while
\* propagate is set.
RECURSIVE CallHandlers(_, _, _, _, _)
CallHandlers(m, o, sink, i, rec) ==
    IF i = 0 THEN sink
    ELSE LET s == [sink EXCEPT ![i] = @ \o Written(o, i, rec)]
         IN IF o[i].propagate THEN CallHandlers(m, o, s, Parent(m, i), rec) ELSE s

\* logging.getLogger("svc.child"), test_integration.py:75
ChildGetLogger ==
    /\ mgr[ChildName] = 0
    /\ mgr' = [mgr EXCEPT ![ChildName] = NewId(mgr)]
    /\ UNCHANGED <<loggers, obj, lock, instance, slock, th, hist, lm, bl, jf, el, em, hd, aws, dp>>

\* logger.debug / info / warning / error / critical on logger i
LogCall(i, lv) ==
    /\ Len(em.calls) < MaxEmits
    /\ LET rec == [from |-> i, level |-> lv, seq |-> Len(em.calls) + 1]
       IN em' = [sink |-> IF IsEnabledFor(mgr, obj, i, lv)
                          THEN CallHandlers(mgr, obj, em.sink, i, rec)
                          ELSE em.sink,
                 calls |-> Append(em.calls, rec)]
    /\ UNCHANGED <<regVars, th, hist, lm, bl, jf, el, hd, aws, dp>>

NextEmit ==
    \/ \E c \in Configs, ok \in BOOLEAN : GetLoggerDone("svc", c, ok)
    \/ ChildGetLogger
    \/ \E i \in Loggers, lv \in Severities : LogCall(i, lv)

SpecEmit == Init /\ [][NextEmit]_vars

(***************************************************************************)
(* The Lambda handler, src/lambda_docker/app/lambda_function/app.py        *)
(* lines 94-192, under its log_method wrapper.                             *)
(*                                                                         *)
(* fault says what fails during the processing: "none", "logger" (a        *)
(* logger call raises, test_lambda.py:99) or "request" (the request        *)
(* function of the method raises).                                         *)
(***************************************************************************)
HttpMethods == {"GET", "POST", "PUT", "DELETE", "OPTIONS", "PATCH", "get", "absent"}

Bodies == {"none", "json", "text", "dict"}

Faults == {"none", "logger", "request"}

Events ==
    [is_dict : {TRUE}, httpMethod : HttpMethods, body : Bodies]
    \cup {[is_dict |-> FALSE, httpMethod |-> "absent", body |-> "none"]}

\* line 110: event.get('httpMethod', 'GET')
HttpMethod(event) == IF event.httpMethod = "absent" THEN "GET" ELSE event.httpMethod

\* lines 127-134: the methods that have a request function
DispatchedAll(m) == TRUE

Dispatched(m) == m \in {"GET", "POST", "PUT", "DELETE"}

\* context.aws_request_id, and line 188 for the error response
RequestId(has_request_id) == IF has_request_id THEN "test-request-id" ELSE "uuid4"

\* lines 106-163: does the try block raise an Exception?
\*   line 107: context.aws_request_id, logger.info
\*   line 110: event.get on a value that is not a dict
\*   line 120: json.loads of a body that is not a string raises TypeError
\*             (a text that is not JSON raises JSONDecodeError, caught at 121)
\*   lines 127-134: the request function
ProcessingRaises(event, has_request_id, fault) ==
    \/ ~has_request_id
    \/ fault = "logger"
    \/ ~event.is_dict
    \/ event.body = "dict"
    \/ Dispatched(HttpMethod(event)) /\ fault = "request"

\* lines 105-192: the response of handler(event, context)
Handler(event, has_request_id, fault) ==
    IF ProcessingRaises(event, has_request_id, fault)
    THEN [statusCode |-> 500, error |-> "Internal server error",
          request_id |-> RequestId(has_request_id)]
    ELSE IF Dispatched(HttpMethod(event))
    THEN [statusCode |-> 200, error |-> "", request_id |-> RequestId(has_request_id)]
    ELSE [statusCode |-> 405, error |-> "Method not allowed",
          request_id |-> RequestId(has_request_id)]

\* The Lambda runtime invokes the handler; the log_method wrapper returns
\* the function's result (pg_logger.py line 300).
HdInvoke(event, has_request_id, fault) ==
    /\ hd.pc = "idle"
    /\ hd' = [pc |-> "done", event |-> event, has_request_id |-> has_request_id,
              fault |-> fault, outcome |-> "returned",
              response |-> Handler(event, has_request_id, fault)]
    /\ UNCHANGED <<regVars, th, hist, lm, bl, jf, el, em, aws, dp>>

\* The next invocation.
HdNext ==
    /\ hd.pc = "done"
    /\ hd' = HdIdle
    /\ UNCHANGED <<regVars, th, hist, lm, bl, jf, el, em, aws, dp>>

NextLambda ==
    \/ \E event \in Events, has_request_id \in BOOLEAN, fault \in Faults :
          HdInvoke(event, has_request_id, fault)
    \/ HdNext

SpecLambda == Init /\ [][NextLambda]_vars

(***************************************************************************)
(* The operations that reach the registry, together: the threads' calls of *)
(* get_logger and of PGLoggerSingleton, and calls of functions wrapped by  *)
(* log_method and by bind_logger, whose default logger comes from          *)
(* get_logger(func.__module__) (line 261) and from PGLoggerSingleton()     *)
(* (line 427).  A wrapper's get_logger runs once the registry lock is free *)
(* (line 115).                                                             *)
(***************************************************************************)
LocksFree == lock.owner = 0 /\ slock.owner = 0

OpsCalls == {[args |-> <<"admin", "secret123">>, kwargs |-> <<>>]}

NextOps ==
    \/ Next
    \/ /\ lm.pc = "idle"
       /\ bl.pc = "idle"
       /\ LocksFree
       /\ \E method \in BOOLEAN, sh \in OpsCalls :
             LmCall("info", TRUE, FALSE, {}, method, 0, sh)
    \/ \E v \in {"logged in"} : LmReturn(v)
    \/ \E e \in Errors : LmRaise(e)
    \/ LmNext
    \/ /\ bl.pc = "idle"
       /\ lm.pc = "idle"
       /\ LocksFree
       /\ \E setting \in {AutoV, NoneV}, a \in {<<StrV>>}, ok \in BOOLEAN :
             BlCall(setting, a, <<>>, <<>>, ok)
       /\ UNCHANGED <<lock, slock, th, hist, lm, jf, el, em, hd, aws, dp>>
    \/ BlNext

SpecOps == Init /\ [][NextOps]_vars

(***************************************************************************)
(* error_logger called inside a function wrapped by log_method, the call   *)
(* itself made inside a try statement with a catch-all for ordinary        *)
(* errors, as the request functions of the Lambda handler are              *)
(* (app.py lines 105-192).                                                 *)
(***************************************************************************)
\* "except Exception" (pg_logger.py line 301, app.py line 165): SystemExit
\* derives from BaseException and is not caught.
CaughtByExceptAny(etype) == TRUE

CaughtByExcept(etype) == etype # "SystemExit"

\* What leaves error_logger (pg_logger.py lines 375-377): nothing, the
\* ValueError of an unsupported mode, or the SystemExit of exit(99).
ErrorOf(outcome) ==
    IF outcome = "exit99" THEN [type |-> "SystemExit", msg |-> "99"]
    ELSE IF outcome = "ValueError"
    THEN [type |-> "ValueError",
          msg |-> "error mode should be 'critical', 'debug', 'error' and 'info'"]
    ELSE NoError

\* pg_logger.py lines 290-304: the wrapped function's body calls
\* error_logger; what error_logger raises leaves the body, and the
\* wrapper's except clause logs and re-raises what it catches.
LmErrorLogger(lg, mode, ignore_flag, set_trace) ==
    /\ lm.pc = "running"
    /\ el.pc = "idle"
    /\ LET r == ElResult(lg, mode, ignore_flag, set_trace)
           e == ErrorOf(r.outcome)
       IN /\ el' = r
          /\ lm' = IF e = NoError THEN lm
                   ELSE IF CaughtByExcept(e.type)
                   THEN [lm EXCEPT !.pc = "done", !.raising = e,
                                   !.log = Append(@, Entry("ERROR", "exception", lm, <<>>, e.msg)),
                                   !.outcome = Reraise(e)]
                   ELSE [lm EXCEPT !.pc = "done", !.raising = e,
                                   !.outcome = [kind |-> "exit", val |-> "", err |-> e]]
    /\ UNCHANGED <<regVars, th, hist, bl, jf, em, hd, aws, dp>>

\* app.py lines 105-192: the try statement around the call.  A result
\* goes into the 200 response; an error the catch-all catches becomes the
\* 500 response; anything else leaves the handler.
HdEnclose ==
    /\ hd.pc = "idle"
    /\ lm.pc = "done"
    /\ hd' = IF lm.outcome.kind = "returned"
             THEN [HdIdle EXCEPT !.pc = "done", !.outcome = "returned",
                                 !.response = [statusCode |-> 200, error |-> "",
                                               request_id |-> RequestId(TRUE)]]
             ELSE IF CaughtByExcept(lm.outcome.err.type)
             THEN [HdIdle EXCEPT !.pc = "done", !.outcome = "returned",
                                 !.response = [statusCode |-> 500,
                                               error |-> "Internal server error",
                                               request_id |-> RequestId(TRUE)]]
             ELSE [HdIdle EXCEPT !.pc = "done", !.outcome = "exit"]
    /\ UNCHANGED <<regVars, th, hist, lm, bl, jf, el, em, aws, dp>>

\* The process is running: exit(99) has not ended it.
Alive == el.outcome # "exit99"

NextExit ==
    \/ \E n \in {"svc"}, c \in {DefaultConfig} : GetLoggerDone(n, c, TRUE)
    \/ /\ lm.pc = "idle"
       /\ bl.pc = "idle"
       /\ hd.pc = "idle"
       /\ Alive
       /\ \E ia \in BOOLEAN, method \in BOOLEAN, recv \in Loggers \cup {0}, sh \in OpsCalls :
             LmCall("info", ia, FALSE, {}, method, recv, sh)
    \/ \E lg \in Loggers \cup {0}, mode \in ModeArgs,
          ignore_flag \in BOOLEAN, set_trace \in BOOLEAN :
            LmErrorLogger(lg, mode, ignore_flag, set_trace)
    \/ ElNext
    \/ \E v \in {"logged in"} : LmReturn(v)
    \/ \E e \in Errors : LmRaise(e)
    \/ HdEnclose
    \/ Alive /\ hd.pc = "done" /\ LmNext
    \/ Alive /\ lm.pc = "idle" /\ HdNext

SpecExit == Init /\ [][NextExit]_vars

(***************************************************************************)
(* The deployment scripts                                                  *)
(* src/lambda_docker/deployment/scripts/manage_iam_role.py,                *)
(* manage_ecr_repository.py and update_lambda.py                           *)
(*                                                                         *)
(* aws holds which resources exist in the account.  A run of a script      *)
(* meets one of three conditions of the lookup call: the service answers   *)
(* (found or not found), the service refuses the lookup with another       *)
(* error (access denied, throttling), or Session(...) itself raises (the   *)
(* configured profile does not exist).  faults is the set of the other     *)
(* API calls that fail in this run.                                        *)
(***************************************************************************)
Lookups == {"answer", "denied", "no_session"}

DeleteCalls == {"delete"}

LambdaCalls == {"delete_function", "create_function", "update_function", "wait"}

\* manage_iam_role.py lines 95-113.  With Session(...) raising, iam_client
\* is unbound when the clause "except iam_client.exceptions..." at line 104
\* is evaluated: the UnboundLocalError leaves the function.
check_role_exists(exists, look) ==
    IF look = "no_session" THEN "raised"
    ELSE IF look = "answer" /\ exists THEN "true"
    ELSE "false"

\* manage_ecr_repository.py lines 31-54: the lookup has its own inner try,
\* so a failing Session(...) reaches "except Exception" (line 47).
check_repository_exists(exists, look) ==
    IF look = "answer" /\ exists THEN "true" ELSE "false"

\* update_lambda.py lines 37-56, the shape of check_role_exists.
lambda_function_exists(exists, look) ==
    IF look = "no_session" THEN "raised"
    ELSE IF look = "answer" /\ exists THEN "true"
    ELSE "false"

\* What a step leaves behind: its return value, the API calls it issued,
\* whether the resource exists afterwards.
StepResult(ok, calls, exists) == [ok |-> ok, calls |-> calls, exists |-> exists]

\* manage_iam_role.py lines 126-176
delete_role(exists, look, faults) ==
    LET chk == check_role_exists(exists, look) IN
    IF chk = "raised" THEN StepResult(FALSE, <<>>, exists)
    ELSE IF chk = "false" THEN StepResult(TRUE, <<"get_role">>, exists)
    ELSE IF "delete" \in faults
    THEN StepResult(FALSE, <<"get_role", "delete_role">>, exists)
    ELSE StepResult(TRUE, <<"get_role", "delete_role">>, FALSE)

\* manage_ecr_repository.py lines 59-85: Session(...) comes first (line 63)
delete_repository(exists, look, faults) ==
    IF look = "no_session" THEN StepResult(FALSE, <<>>, exists)
    ELSE IF check_repository_exists(exists, look) = "false"
    THEN StepResult(TRUE, <<"describe_repositories">>, exists)
    ELSE IF "delete" \in faults
    THEN StepResult(FALSE, <<"describe_repositories", "delete_repository">>, exists)
    ELSE StepResult(TRUE, <<"describe_repositories", "delete_repository">>, FALSE)

\* update_lambda.py lines 224-250
delete_lambda_function(exists, look, faults) ==
    LET chk == lambda_function_exists(exists, look) IN
    IF chk = "raised" THEN StepResult(FALSE, <<>>, exists)
    ELSE IF chk = "false" THEN StepResult(TRUE, <<"get_function">>, exists)
    ELSE IF "delete_function" \in faults
    THEN StepResult(FALSE, <<"get_function", "delete_function">>, exists)
    ELSE StepResult(TRUE, <<"get_function", "delete_function">>, FALSE)

\* update_lambda.py lines 60-117: the service refuses to create a function
\* whose name is taken.
create_lambda_function(exists, look, faults) ==
    IF look = "no_session" THEN StepResult(FALSE, <<>>, exists)
    ELSE IF exists \/ "create_function" \in faults
    THEN StepResult(FALSE, <<"create_function">>, exists)
    ELSE StepResult(TRUE, <<"create_function">>, TRUE)

\* update_lambda.py lines 121-189: the service cannot update a function
\* that does not exist.
update_lambda_function(exists, look, faults) ==
    IF look = "no_session" THEN StepResult(FALSE, <<>>, exists)
    ELSE IF ~exists \/ "update_function" \in faults
    THEN StepResult(FALSE, <<"update_function">>, exists)
    ELSE StepResult(TRUE, <<"update_function">>, exists)

\* update_lambda.py lines 193-218
wait_for_function_update(exists, look, faults) ==
    IF look = "no_session" THEN StepResult(FALSE, <<>>, exists)
    ELSE IF "wait" \in faults THEN StepResult(FALSE, <<"wait">>, exists)
    ELSE StepResult(TRUE, <<"wait">>, exists)

\* A run of update_lambda: how it ended, the steps it attempted in order,
\* what each reported, the API calls issued, the function afterwards.
Run(outcome, steps, reported, calls, exists) ==
    [outcome |-> outcome, steps |-> steps, reported |-> reported,
     calls |-> calls, exists |-> exists]

BoolText(b) == IF b THEN "true" ELSE "false"

\* update_lambda.py lines 254-276
recreate_lambda_function(exists, look, faults) ==
    LET d == delete_lambda_function(exists, look, faults)
        c == create_lambda_function(d.exists, look, faults)
    IN  IF ~d.ok THEN Run("false", <<"delete">>, <<FALSE>>, d.calls, d.exists)
        ELSE Run(BoolText(c.ok), <<"delete", "create">>, <<TRUE, c.ok>>,
                 d.calls \o c.calls, c.exists)

\* update_lambda.py lines 279-309: no try statement around the body, so an
\* exception of lambda_function_exists() at line 292 leaves update_lambda.
update_lambda(recreate, exists, look, faults) ==
    LET chk == lambda_function_exists(exists, look)
        seen == IF look = "no_session" THEN <<>> ELSE <<"get_function">>
        u == update_lambda_function(exists, look, faults)
        w == wait_for_function_update(u.exists, look, faults)
        c == create_lambda_function(exists, look, faults)
    IN  IF recreate THEN recreate_lambda_function(exists, look, faults)
        ELSE IF chk = "raised" THEN Run("raised", <<>>, <<>>, seen, exists)
        ELSE IF chk = "true"
        THEN IF ~u.ok
             THEN Run("false", <<"update">>, <<FALSE>>, seen \o u.calls, u.exists)
             ELSE Run(BoolText(w.ok), <<"update", "wait">>, <<TRUE, w.ok>>,
                      seen \o u.calls \o w.calls, w.exists)
        ELSE Run(BoolText(c.ok), <<"create">>, <<c.ok>>, seen \o c.calls, c.exists)

\* A finished call of one of the scripts' functions.
DpDone(op, recreate, existed, look, faults, run) ==
    [pc |-> "done", op |-> op, recreate |-> recreate, existed |-> existed,
     look |-> look, faults |-> faults, steps |-> run.steps,
     reported |-> run.reported, calls |-> run.calls, outcome |-> run.outcome]

\* manage_iam_role.py lines 191-236: create_role returns the ARN, or None
\* after an error.
CreateRole(ok) ==
    /\ dp.pc = "idle"
    /\ ~aws.role
    /\ aws' = [aws EXCEPT !.role = ok]
    /\ dp' = DpDone("create_role", FALSE, FALSE, "answer", {},
                    Run(BoolText(ok), <<>>, <<>>, <<"create_role">>, ok))
    /\ UNCHANGED <<regVars, th, hist, lm, bl, jf, el, em, hd>>

\* manage_ecr_repository.py lines 89-113
CreateRepository(ok) ==
    /\ dp.pc = "idle"
    /\ ~aws.repository
    /\ aws' = [aws EXCEPT !.repository = ok]
    /\ dp' = DpDone("create_repository", FALSE, FALSE, "answer", {},
                    Run(BoolText(ok), <<>>, <<>>, <<"create_repository">>, ok))
    /\ UNCHANGED <<regVars, th, hist, lm, bl, jf, el, em, hd>>

DeleteRole(look, faults) ==
    /\ dp.pc = "idle"
    /\ LET r == delete_role(aws.role, look, faults) IN
         /\ aws' = [aws EXCEPT !.role = r.exists]
         /\ dp' = DpDone("delete_role", FALSE, aws.role, look, faults,
                         Run(BoolText(r.ok), <<>>, <<>>, r.calls, r.exists))
    /\ UNCHANGED <<regVars, th, hist, lm, bl, jf, el, em, hd>>

DeleteRepository(look, faults) ==
    /\ dp.pc = "idle"
    /\ LET r == delete_repository(aws.repository, look, faults) IN
         /\ aws' = [aws EXCEPT !.repository = r.exists]
         /\ dp' = DpDone("delete_repository", FALSE, aws.repository, look, faults,
                         Run(BoolText(r.ok), <<>>, <<>>, r.calls, r.exists))
    /\ UNCHANGED <<regVars, th, hist, lm, bl, jf, el, em, hd>>

\* deploy.py line 101: update_lambda(recreate=args.recreate_lambda)
UpdateLambda(recreate, look, faults) ==
    /\ dp.pc = "idle"
    /\ LET r == update_lambda(recreate, aws.function, look, faults) IN
         /\ aws' = [aws EXCEPT !.function = r.exists]
         /\ dp' = DpDone("update_lambda", recreate, aws.function, look, faults, r)
    /\ UNCHANGED <<regVars, th, hist, lm, bl, jf, el, em, hd>>

\* The next run of a script.
DpNext ==
    /\ dp.pc = "done"
    /\ dp' = DpIdle
    /\ UNCHANGED <<regVars, th, hist, lm, bl, jf, el, em, hd, aws>>

NextCloud ==
    \/ \E ok \in BOOLEAN : CreateRole(ok)
    \/ \E ok \in BOOLEAN : CreateRepository(ok)
    \/ \E look \in Lookups, faults \in SUBSET DeleteCalls : DeleteRole(look, faults)
    \/ \E look \in Lookups, faults \in SUBSET DeleteCalls : DeleteRepository(look, faults)
    \/ \E recreate \in BOOLEAN, look \in Lookups, faults \in SUBSET LambdaCalls :
          UpdateLambda(recreate, look, faults)
    \/ DpNext

SpecCloud == Init /\ [][NextCloud]_vars

(***************************************************************************)
(* Claims about the registry                                               *)
(***************************************************************************)
HandlerCount(o, k) == Cardinality({i \in 1..Len(o.handlers) : o.handlers[i].kind = k})

\* C1: for any name, all calls of PGLogger.get_logger that have returned for
\* that name returned one and the same logger object, the object the
\* registry holds for the name, and the registry was written once for it
\* (every later call is a cache hit on the object the first call inserted).
C1_SameInstance ==
    \A n \in Names :
        /\ Cardinality(hist.returned[n]) <= 1
        /\ hist.returned[n] # {} => hist.returned[n] = {loggers[n]}
        /\ hist.inserted[n] <= 1

\* Two calls for one name have returned.
C1_Witness == \E n \in Names : hist.returns[n] >= 2 /\ hist.inserted[n] = 1

\* C2: once a name is in the registry, no step of any later call for any
\* name and any configuration changes the cached object's level, handlers
\* (sinks and their formatter) or propagation flag, nor the registry entry.
C2_FirstWriterWins ==
    [][\A n \in Names :
          loggers[n] # 0 =>
              /\ loggers'[n] = loggers[n]
              /\ obj'[loggers[n]] = obj[loggers[n]]]_vars

\* A cache hit was served to a call whose configuration differs from the
\* one the logger was constructed with.
C2_Witness == hist.hitDiff

\* C3: under every interleaving of the callers, for every name: every
\* construction that was started either failed (raising to its caller) or
\* is the single one in progress or inserted, the registry was written at
\* most once, every caller that got a logger got the registry's object,
\* and the cached object carries exactly the sinks the constructing call
\* asked for (one console handler iff log_to_console, one file handler iff
\* log_to_file, nothing else).
C3_OneConstruction ==
    \A n \in Names :
        /\ hist.started[n] - hist.failed[n] <= 1
        /\ hist.inserted[n] <= 1
        /\ hist.returned[n] \subseteq {loggers[n]}
        /\ loggers[n] # 0 =>
              LET o == obj[loggers[n]]
                  c == hist.ctor[n]
              IN /\ hist.started[n] - hist.failed[n] = 1
                 /\ HandlerCount(o, "console") = (IF c.log_to_console THEN 1 ELSE 0)
                 /\ HandlerCount(o, "file") = (IF c.log_to_file THEN 1 ELSE 0)
                 /\ Len(o.handlers) = HandlerCount(o, "console") + HandlerCount(o, "file")
                 /\ o.level = c.log_level

\* Two callers asked for the same name while it was not in the registry,
\* both have returned, one of them through the cache.
C3_Witness ==
    \E n \in Names : hist.raced[n] /\ hist.returns[n] >= 2 /\ hist.failed[n] = 0

\* C4 as stated: after a get_logger call with log_to_file has failed, the
\* error has reached the caller and, as long as the name is not in the
\* registry, the facility's logger of that name is not left configured with
\* sinks (console-only).
C4_NoConsoleOnlyLeft ==
    \A t \in Threads :
        (th[t].pc = "idle" /\ th[t].raised /\ loggers[th[t].name] = 0)
            => obj[mgr[th[t].name]].handlers = <<>>

\* C4 as amended: a failed get_logger call returns no logger to its caller
\* (the error propagates) and writes nothing to the registry, and the
\* registry never holds a logger that lacks a file sink its constructing
\* call asked for; the facility's own logger object of that name keeps the
\* level and the console sink set before the failure.
C4_FailurePropagates ==
    /\ \A t \in Threads :
          th[t].raised => /\ th[t].ret = 0
                          /\ th[t].cfg.log_to_file
                          /\ th[t].pc = "idle" => hist.failed[th[t].name] >= 1
    /\ \A n \in Names :
          /\ hist.inserted[n] + hist.failed[n] <= hist.started[n]
          /\ loggers[n] # 0 =>
                (hist.ctor[n].log_to_file => HandlerCount(obj[loggers[n]], "file") = 1)
          /\ loggers[n] = 0 => hist.inserted[n] = 0

\* A call asking for console and file sinks failed; its name is not in the
\* registry and the facility's logger holds the console sink alone.
C4_Witness ==
    \E t \in Threads :
        /\ th[t].pc = "idle" /\ th[t].raised /\ th[t].cfg.log_to_console
        /\ loggers[th[t].name] = 0
        /\ HandlerCount(obj[mgr[th[t].name]], "console") = 1
        /\ HandlerCount(obj[mgr[th[t].name]], "file") = 0

(***************************************************************************)
(* Claims about log_method                                                 *)
(***************************************************************************)
EntriesWhere(log, P(_)) == {i \in 1..Len(log) : P(log[i])}

IsErrorSev(e) == e.sev = "ERROR"

IsFailure(e) == e.kind = "exception"

IsExit(e) == e.kind = "exit"

FiveLevels == {"debug", "info", "warning", "error", "critical"}

LmRaised == lm.pc = "done" /\ lm.raising # NoError

\* C5 as stated: when the wrapped function raises, the same error reaches
\* the caller and exactly one entry of error severity is emitted for the
\* call, naming the function and the error's string form, for every one of
\* the five level names.
C5_ExactlyOneErrorEntry ==
    (LmRaised /\ Lower(lm.level) \in FiveLevels) =>
        /\ lm.outcome = [kind |-> "raised", val |-> "", err |-> lm.raising]
        /\ Cardinality(EntriesWhere(lm.log, IsErrorSev)) = 1
        /\ \A i \in EntriesWhere(lm.log, IsErrorSev) :
              lm.log[i].qual = lm.qual /\ lm.log[i].text = lm.raising.msg

\* C5 as amended: when the wrapped function raises, the same error (type
\* and message) reaches the caller, no exit entry is emitted, and exactly
\* one failure entry is emitted, last, at error severity, on the resolved
\* logger, naming the function and the error's string form; it is the only
\* entry of error severity unless the entry/exit level is itself error
\* severity, in which case the entry log is a second one.
C5_ErrorPropagates ==
    LmRaised =>
        /\ lm.outcome = [kind |-> "raised", val |-> "", err |-> lm.raising]
        /\ EntriesWhere(lm.log, IsFailure) = {Len(lm.log)}
        /\ EntriesWhere(lm.log, IsExit) = {}
        /\ LET f == lm.log[Len(lm.log)]
           IN /\ f.sev = "ERROR"
              /\ f.qual = lm.qual
              /\ f.text = lm.raising.msg
              /\ f.logger = lm.logger
        /\ Cardinality(EntriesWhere(lm.log, IsErrorSev)) =
              (IF LogFunc(lm.level) = "ERROR" THEN 2 ELSE 1)

\* A function wrapped with level "error" has raised: entry and failure
\* entries are both of error severity.
C5_Witness ==
    /\ LmRaised
    /\ lm.level = "error"
    /\ Len(lm.log) = 2
    /\ lm.outcome.err = lm.raising

\* The arguments of the call other than keyword argument i that the code
\* does not redact.
OtherShown(i) ==
    {lm.args[p] : p \in 1..Len(lm.args)}
    \cup {lm.kwargs[j].v : j \in {x \in 1..Len(lm.kwargs) :
                                    x # i /\ lm.kwargs[x].k \notin lm.exclude_args}}

\* C6: with include_args, for every keyword argument k=v of the call whose
\* name is in exclude_args, the entry log renders the key as k=*** (the key
\* is present, and only redacted), and the value v appears nowhere in the
\* entry unless the caller also passed it as another, unredacted argument.
C6_KeywordRedacted ==
    (lm.pc \in {"running", "done"} /\ lm.log # <<>> /\ lm.include_args) =>
        \A i \in 1..Len(lm.kwargs) :
            lm.kwargs[i].k \in lm.exclude_args =>
                LET parts == lm.log[1].parts
                    k == lm.kwargs[i].k
                    v == lm.kwargs[i].v
                IN /\ lm.log[1].kind = "enter"
                   /\ \E j \in 1..Len(parts) : parts[j] = [key |-> k, shown |-> "***"]
                   /\ \A j \in 1..Len(parts) : parts[j].key = k => parts[j].shown = "***"
                   /\ v \notin OtherShown(i) =>
                         \A j \in 1..Len(parts) : parts[j].shown # v

\* A call with password="secret123" and username="admin" by keyword,
\* exclude_args = ["password"]: the entry shows username and not the
\* password.
C6_Witness ==
    /\ lm.pc = "running"
    /\ lm.include_args
    /\ lm.exclude_args = {"password"}
    /\ \E i \in 1..Len(lm.kwargs) : lm.kwargs[i] = [k |-> "password", v |-> "secret123"]
    /\ \E j \in 1..Len(lm.log[1].parts) :
          lm.log[1].parts[j] = [key |-> "username", shown |-> "admin"]
    /\ \A j \in 1..Len(lm.log[1].parts) : lm.log[1].parts[j].shown # "secret123"

\* C7: for a method wrapped with exclude_args = [password] and called with
\* both arguments positionally, the entry log contains password=*** and not
\* the password's value, while the username's value appears.
C7_PositionalRedacted ==
    ( /\ lm.pc \in {"running", "done"} /\ lm.log # <<>> /\ lm.include_args
      /\ lm.exclude_args = {"password"}
      /\ Len(lm.args) = 3 /\ lm.args[1] = "self" /\ lm.args[2] # lm.args[3] ) =>
        LET parts == lm.log[1].parts
        IN /\ \E j \in 1..Len(parts) : parts[j] = [key |-> "password", shown |-> "***"]
           /\ \A j \in 1..Len(parts) : parts[j].shown # lm.args[3]
           /\ \E j \in 1..Len(parts) : parts[j].shown = lm.args[2]

(***************************************************************************)
(* Claims about bind_logger                                                *)
(***************************************************************************)
BlDone == bl.pc = "done"

\* The caller gave a logger for the target parameter, by position or by
\* keyword.
SuppliedPositionally ==
    /\ Len(bl.args) >= IndexOf(BindParams, VariableName)
    /\ IsLogger(bl.args[IndexOf(BindParams, VariableName)])

SuppliedByKeyword == IsLogger(KwGet(bl.kwargs, VariableName))

CallerLogger ==
    IF SuppliedByKeyword THEN KwGet(bl.kwargs, VariableName)
    ELSE bl.args[IndexOf(BindParams, VariableName)]

\* C8: when the caller supplies a logger for the target parameter,
\* positionally or by keyword, the function is invoked with exactly the
\* caller's arguments and receives the caller's logger, whatever the
\* decorator's logger setting.
C8_CallerLoggerKept ==
    (BlDone /\ (SuppliedPositionally \/ SuppliedByKeyword)) =>
        /\ bl.outcome = "called"
        /\ bl.kwout = bl.kwargs
        /\ bl.bound = CallerLogger

\* The order of the search, stated on its own: the first logger among the
\* keyword values, else the first among the positional arguments, else the
\* first among the receiver's attributes.
Discoverable ==
    \/ \E i \in 1..Len(bl.kwargs) : IsLogger(bl.kwargs[i].v)
    \/ \E i \in 1..Len(bl.args) : IsLogger(bl.args[i])
    \/ \E i \in 1..Len(bl.attrs) : IsLogger(bl.attrs[i])

FirstOf(vals) == vals[CHOOSE i \in 1..Len(vals) :
                        /\ IsLogger(vals[i])
                        /\ \A j \in 1..(i - 1) : ~IsLogger(vals[j])]

FirstInOrder ==
    IF \E i \in 1..Len(bl.kwargs) : IsLogger(bl.kwargs[i].v) THEN FirstOf(KwValues(bl.kwargs))
    ELSE IF \E i \in 1..Len(bl.args) : IsLogger(bl.args[i]) THEN FirstOf(bl.args)
    ELSE FirstOf(bl.attrs)

\* C9: in auto mode, when the caller supplies no logger for the target
\* parameter and a logger is discoverable, the wrapper injects under the
\* target parameter the first logger found in the order keyword values,
\* positional arguments, receiver attributes; the function receives it
\* whenever the target parameter was not also passed positionally.
C9_DiscoveryOrder ==
    (BlDone /\ bl.setting = AutoV /\ ~SuppliedPositionally /\ ~SuppliedByKeyword
        /\ Discoverable) =>
        /\ KwGet(bl.kwout, VariableName) = FirstInOrder
        /\ ~SessionInArgs(bl.args) => bl.outcome = "called" /\ bl.bound = FirstInOrder

\* A method called on a receiver whose attribute is a logger L, with no
\* other logger in the call, received L.
C9_Witness ==
    /\ BlDone /\ bl.setting = AutoV
    /\ bl.args = <<ObjV>> /\ bl.kwargs = <<>>
    /\ Len(bl.attrs) >= 1 /\ IsLogger(bl.attrs[Len(bl.attrs)])
    /\ bl.outcome = "called"
    /\ bl.bound = FirstOf(bl.attrs)

\* A call with no logger for the target parameter, one logger by keyword
\* and another one by position: the keyword one was received.
C9_WitnessOrder ==
    /\ BlDone /\ bl.setting = AutoV /\ bl.outcome = "called"
    /\ ~SuppliedPositionally /\ ~SuppliedByKeyword
    /\ \E i \in 1..Len(bl.kwargs) : bl.kwargs[i].v = bl.bound
    /\ \E i \in 1..Len(bl.args) : IsLogger(bl.args[i]) /\ bl.args[i] # bl.bound

\* C10 as stated: whenever no logger is discoverable in the call and the
\* function is invoked, it is invoked with the target parameter bound to
\* the default logger (the PGLoggerSingleton instance), or to None when the
\* decorator was configured with logger=None.
C10_DefaultInjected ==
    (BlDone /\ ~Discoverable /\ bl.outcome = "called") =>
        bl.bound = (IF bl.setting = NoneV THEN NoneV ELSE LoggerV(instance))

\* C10 as amended: when no logger is discoverable in the call, a decorator
\* configured with a concrete logger injects that logger; one configured
\* with logger=None injects None; otherwise the wrapper injects what
\* PGLoggerSingleton() returns, the singleton instance, and when the
\* construction of the default logger fails the error propagates and the
\* function is not invoked.  The function receives the injected value
\* whenever the target parameter was not also passed positionally.
C10_DefaultOrNone ==
    (BlDone /\ ~Discoverable) =>
        LET inj == KwGet(bl.kwout, VariableName)
        IN /\ \/ IsLogger(bl.setting) /\ inj = bl.setting
              \/ bl.setting = NoneV /\ inj = NoneV /\ HasKey(bl.kwout, VariableName)
              \/ bl.setting = AutoV /\ bl.outcome # "raised"
                    /\ instance # 0 /\ inj = LoggerV(instance)
                    /\ instance = loggers["pgtask"]
              \/ bl.setting = AutoV /\ bl.outcome = "raised"
                    /\ instance = 0 /\ loggers["pgtask"] = 0
           /\ (bl.outcome # "raised" /\ ~SessionInArgs(bl.args)) =>
                 bl.outcome = "called" /\ bl.bound = inj

\* An auto-mode call with nothing discoverable received the singleton's
\* logger.
C10_Witness ==
    /\ BlDone /\ ~Discoverable /\ bl.setting = AutoV
    /\ bl.outcome = "called" /\ instance # 0 /\ bl.bound = LoggerV(instance)

\* C11: the wrapper never raises on its own account: for every way of
\* passing the arguments and every decorator setting, the wrapped function
\* is invoked (an error can only come from its body), and when no logger is
\* found a default is injected rather than an error raised.
C11_NeverRaises ==
    BlDone => bl.outcome = "called"

(***************************************************************************)
(* Claims about JsonFormatter                                              *)
(***************************************************************************)
JfDone == jf.pc = "done"

FixedKeys == {"timestamp", "level", "logger", "file", "line", "message"}

\* The fixed keys of the output hold the record's values.
FixedKeysAsRecord ==
    \A i \in 1..Len(FixedFields(jf.record)) :
        LET f == FixedFields(jf.record)[i]
        IN DictHas(jf.out, f.k) /\ DictGet(jf.out, f.k) = f.v

\* C12: every record formatted yields one JSON object holding the six
\* fixed keys with the record's values; when the record carries error info
\* the object also holds exception.type (the error's type name),
\* exception.message (its string form) and exception.traceback, a
\* non-empty list.
C12_JsonObject ==
    JfDone =>
        /\ jf.outcome = "json"
        /\ FixedKeysAsRecord
        /\ jf.record.exc = "error" =>
              /\ DictHas(jf.out, "exception")
              /\ LET e == DictGet(jf.out, "exception")
                 IN /\ e.t = "obj"
                    /\ DictHas(e.obj, "type") /\ DictGet(e.obj, "type") = JStr(jf.record.etype)
                    /\ DictHas(e.obj, "message") /\ DictGet(e.obj, "message") = JStr(jf.record.emsg)
                    /\ DictHas(e.obj, "traceback")
                    /\ DictGet(e.obj, "traceback").t = "list"
                    /\ DictGet(e.obj, "traceback").list # <<>>

\* C13: when a record with structured extras is formatted to a JSON
\* object, every extra whose name is not a fixed key (nor exception)
\* appears at the top level with its value, and the fixed keys, and
\* exception when the record carries an error, keep the record's values
\* even where an extra has the same name.
C13_FixedKeysWin ==
    (JfDone /\ jf.outcome = "json" /\ jf.record.has_extra /\ jf.record.extra # <<>>) =>
        /\ FixedKeysAsRecord
        /\ jf.record.exc = "error" =>
              /\ DictHas(jf.out, "exception")
              /\ DictGet(jf.out, "exception") =
                    DictGet(WithException(<<>>, jf.record), "exception")
        /\ \A i \in 1..Len(jf.record.extra) :
              jf.record.extra[i].k \notin FixedKeys \cup {"exception"} =>
                  /\ DictHas(jf.out, jf.record.extra[i].k)
                  /\ DictGet(jf.out, jf.record.extra[i].k) = jf.record.extra[i].v

(***************************************************************************)
(* Claims about error_logger                                               *)
(***************************************************************************)
ElDone == el.pc = "done"

\* The message was emitted first: through the logger at the severity the
\* mode selects, or on standard output when there is no logger.
ElEmittedFirst ==
    IF el.logger # 0
    THEN /\ el.log # <<>>
         /\ el.mode \in SupportedModes
         /\ el.log[1] = [sev |-> ModeSeverity(el.mode),
                         text |-> "Error in func_str addition_msg error"]
         /\ el.stdout = <<>>
    ELSE el.stdout = <<"Error in func_str addition_msg error">> /\ el.log = <<>>

\* C14 as stated: every call with ignore_flag=False emits its message and
\* then terminates the process with status 99; every call with
\* ignore_flag=True returns None and does not terminate the process.
C14_EmitThenExit ==
    ElDone =>
        /\ ~el.ignore_flag => ElEmittedFirst /\ el.outcome = "exit99"
        /\ el.ignore_flag => el.outcome = "returned"

\* C14 as amended: for a call with no logger, or with a logger and a mode
\* among critical, debug, error, info, the message is emitted first and
\* then the process is terminated with status 99 when ignore_flag is False,
\* None is returned (no termination) when it is True; for a call with a
\* logger and any other mode a ValueError is raised to the caller, whatever
\* ignore_flag is, with nothing emitted and no termination.
C14_EmitThenExitOrReturn ==
    ElDone =>
        IF el.logger = 0 \/ el.mode \in SupportedModes
        THEN /\ ElEmittedFirst
             /\ el.outcome = (IF el.ignore_flag THEN "returned" ELSE "exit99")
        ELSE el.outcome = "ValueError" /\ el.log = <<>> /\ el.stdout = <<>>

\* A call with a logger, mode "error" and ignore_flag=False has logged at
\* error severity and ended the process with status 99.
C14_Witness ==
    /\ ElDone /\ el.logger # 0 /\ el.mode = "error" /\ ~el.ignore_flag
    /\ el.log[1].sev = "ERROR"
    /\ el.outcome = "exit99"

\* C15: every call with a mode outside the supported set raises an error
\* to the caller and emits nothing, with a logger and without one.
C15_InvalidModeRaises ==
    (ElDone /\ el.mode \notin SupportedModes) =>
        el.outcome = "ValueError" /\ el.log = <<>> /\ el.stdout = <<>>

(***************************************************************************)
(* Claims about PGLoggerSingleton                                          *)
(***************************************************************************)
\* C16: once PGLoggerSingleton holds an instance, no step of any later call
\* (PGLoggerSingleton with any name, level or file path, or any other call
\* of the registry) replaces the instance or changes the instance's name,
\* level, propagation or handlers, and every PGLoggerSingleton call that
\* has returned returned that one instance.
C16_FirstConfigurationWins ==
    [][ /\ instance # 0 =>
              /\ instance' = instance
              /\ obj'[instance] = obj[instance]
              /\ \A n \in AllNames : mgr[n] = instance => mgr'[n] = instance
        /\ hist'.sreturned \subseteq {instance'} ]_vars

\* A PGLoggerSingleton call whose name or level differs from the
\* instance's has returned the instance.
C16_Witness ==
    \E t \in Threads :
        /\ th[t].op = "singleton" /\ th[t].pc = "idle" /\ ~th[t].raised
        /\ instance # 0 /\ th[t].ret = instance
        /\ \/ mgr[th[t].name] # instance
           \/ th[t].cfg.log_level # obj[instance].level

SelectedSeverity(level) ==
    CASE Lower(level) = "debug" -> "DEBUG"
      [] Lower(level) = "warning" -> "WARNING"
      [] Lower(level) = "error" -> "ERROR"
      [] Lower(level) = "critical" -> "CRITICAL"
      [] OTHER -> "INFO"

\* C18: the entry and exit logs of every call are emitted at the severity
\* selected by the level name among debug, info, warning, error, critical
\* in any case, and at info severity for every other level string, and the
\* call proceeds: the entry is logged and the function is invoked.
C18_LevelByNameElseInfo ==
    lm.pc # "idle" =>
        /\ lm.log # <<>>
        /\ lm.log[1].kind = "enter"
        /\ \A i \in 1..Len(lm.log) :
              lm.log[i].kind \in {"enter", "exit"} =>
                  lm.log[i].sev = SelectedSeverity(lm.level)

(***************************************************************************)
(* Claims about the sinks of a constructed logger                          *)
(***************************************************************************)
\* The sinks a configuration asks for, in the order of attachment, all
\* with the configuration's one formatter.
RequestedSinks(n, c) ==
    (IF c.log_to_console
     THEN <<[kind |-> "console", fmt |-> IF c.use_json_format THEN "json" ELSE "plain",
             path |-> ""]>>
     ELSE <<>>)
    \o (IF c.log_to_file
        THEN <<[kind |-> "file", fmt |-> IF c.use_json_format THEN "json" ELSE "plain",
                path |-> IF c.log_file_path = "" THEN "DEFAULT_LOG_DIR/" \o n \o ".log"
                         ELSE c.log_file_path]>>
        ELSE <<>>)

\* C19: the logger the registry holds for a name carries exactly the sinks
\* its constructing call asked for (one console sink iff log_to_console,
\* one file sink iff log_to_file, sharing the configuration's formatter)
\* and that call's level and propagation, whatever sinks the facility's
\* logger of that name carried before; constructed with the defaults it
\* has one console sink with the plain format, level INFO and propagate
\* false.
C19_ExactlyRequestedSinks ==
    \A n \in Names :
        loggers[n] # 0 =>
            LET o == obj[loggers[n]]
                c == hist.ctor[n]
            IN /\ o.handlers = RequestedSinks(n, c)
               /\ o.level = c.log_level
               /\ o.propagate = c.propagate
               /\ c = DefaultConfig =>
                     o = [level |-> "INFO", propagate |-> FALSE,
                          handlers |-> <<[kind |-> "console", fmt |-> "plain", path |-> ""]>>]

\* A name was constructed with a file sink only after an earlier, failed
\* construction had left a console sink on the facility's logger of that
\* name: the console sink is gone.
C19_Witness ==
    \E n \in Names :
        /\ hist.failed[n] >= 1
        /\ loggers[n] # 0
        /\ ~hist.ctor[n].log_to_console
        /\ Len(obj[loggers[n]].handlers) = 1
        /\ obj[loggers[n]].handlers[1].kind = "file"

\* C20: the logger of a call is the logger found among the attributes of
\* the call's first positional argument and, when there is none or there
\* is no positional argument, the registry's logger for the wrapped
\* function's module name; every entry, exit and failure log of the call
\* goes to that logger.
C20_ResolvedLogger ==
    (lm.pc # "idle" /\ lm.log # <<>>) =>
        LET resolved == IF lm.args # <<>> /\ lm.args[1] = "self" /\ lm.recv # 0
                        THEN lm.recv
                        ELSE loggers[ModuleName]
        IN /\ resolved # 0
           /\ lm.logger = resolved
           /\ \A i \in 1..Len(lm.log) : lm.log[i].logger = resolved

\* A method called on a receiver that carries a logger other than the
\* module's has raised: its entry and failure logs went to the receiver's
\* logger.
C20_Witness ==
    /\ lm.pc = "done" /\ lm.raising # NoError
    /\ Len(lm.args) >= 1 /\ lm.args[1] = "self" /\ lm.recv # 0
    /\ lm.recv # loggers[ModuleName]
    /\ Len(lm.log) = 2
    /\ lm.log[1].logger = lm.recv /\ lm.log[2].logger = lm.recv

\* The positional arguments of the call without the implicit receiver of a
\* method.
ExplicitArgs == IF lm.args # <<>> /\ lm.args[1] = "self" THEN Tail(lm.args) ELSE lm.args

\* C21: with include_args, the entry log renders every positional argument
\* except the implicit receiver of a method, in order, followed by every
\* keyword argument; for a plain function all positional arguments, the
\* first included, are rendered.
C21_AllArgumentsRendered ==
    (lm.pc # "idle" /\ lm.log # <<>> /\ lm.include_args) =>
        LET parts == lm.log[1].parts
            np == Len(ExplicitArgs)
        IN /\ Len(parts) = np + Len(lm.kwargs)
           /\ \A i \in 1..np : parts[i] = [key |-> "", shown |-> ExplicitArgs[i]]
           /\ \A j \in 1..Len(lm.kwargs) : parts[np + j].key = lm.kwargs[j].k

C24_HandlerAlwaysResponds ==
    hd.pc = "done" =>
        /\ hd.outcome = "returned"
        /\ hd.response.statusCode \in {200, 405, 500}
        /\ LET m == IF hd.event.httpMethod = "absent" THEN "GET" ELSE hd.event.httpMethod
               failed == \/ hd.fault = "logger"
                         \/ ~hd.has_request_id
                         \/ ~hd.event.is_dict
                         \/ hd.event.body = "dict"
                         \/ hd.fault = "request" /\ m \in {"GET", "POST", "PUT", "DELETE"}
           IN /\ failed => /\ hd.response.statusCode = 500
                           /\ hd.response.error = "Internal server error"
              /\ (~failed /\ m \in {"GET", "POST", "PUT", "DELETE"}) =>
                    /\ hd.response.statusCode = 200
                    /\ hd.response.request_id = "test-request-id"
              /\ (~failed /\ m \notin {"GET", "POST", "PUT", "DELETE"}) =>
                    hd.response.statusCode = 405

\* An OPTIONS request was answered with 405.
C24_Witness ==
    /\ hd.pc = "done" /\ hd.event.httpMethod = "OPTIONS" /\ hd.fault = "none"
    /\ hd.has_request_id
    /\ hd.response.statusCode = 405

(***************************************************************************)
(* Claims about the deployment scripts                                     *)
(***************************************************************************)
DeleteDone == dp.pc = "done" /\ dp.op \in {"delete_role", "delete_repository"}

\* The resource the finished delete was about still exists.
DeleteTargetExists ==
    IF dp.op = "delete_role" THEN aws.role ELSE aws.repository

\* An API call of the finished delete failed with an error other than
\* "not found", or the session could not be made.
DeleteErrored ==
    \/ dp.look # "answer"
    \/ dp.existed /\ "delete" \in dp.faults

IssuedDelete ==
    \E i \in 1..Len(dp.calls) : dp.calls[i] \in {"delete_role", "delete_repository"}

\* C25: delete_role and delete_repository return True only when the
\* resource was deleted or does not exist, return False when an error
\* occurred, and issue no delete call when the resource does not exist.
C25_DeleteContract ==
    DeleteDone =>
        /\ dp.outcome = "true" => ~DeleteTargetExists
        /\ DeleteErrored => dp.outcome = "false"
        /\ ~dp.existed => ~IssuedDelete

UpdateDone == dp.pc = "done" /\ dp.op = "update_lambda"

IsPrefix(s, t) == Len(s) <= Len(t) /\ \A i \in 1..Len(s) : s[i] = t[i]

IssuedCall(c) == \E i \in 1..Len(dp.calls) : dp.calls[i] = c

AllReported == \A i \in 1..Len(dp.reported) : dp.reported[i]

\* The steps the finished run had to go through, by the function's
\* existence when the run began.
PlannedSteps ==
    IF dp.recreate THEN <<"delete", "create">>
    ELSE IF dp.existed THEN <<"update", "wait">>
    ELSE <<"create">>

\* C27: update_lambda sequences its steps by existence check (recreate=False:
\* update then wait when the function exists, otherwise create;
\* recreate=True: delete, skipped when absent, then create), returns True
\* iff every step it attempted reported success, and executes no step after
\* the first failing one.
C27_SequencedByExistence ==
    UpdateDone =>
        /\ dp.outcome \in {"true", "false"}
        /\ dp.steps # <<>> /\ IsPrefix(dp.steps, PlannedSteps)
        /\ dp.recreate => (IssuedCall("delete_function") <=> dp.existed)
        /\ dp.outcome = "true" <=> (dp.steps = PlannedSteps /\ AllReported)
        /\ \A i \in 1..(Len(dp.reported) - 1) : dp.reported[i]

(***************************************************************************)
(* Claims about the registry under all operations                          *)
(***************************************************************************)
\* The registry is a mapping: each name has no instance (0) or one.
OneInstancePerName == loggers \in [AllNames -> Ids \cup {0}]

\* No step removes or replaces the instance a name is mapped to.
MappingKept == \A n \in AllNames : loggers[n] # 0 => loggers'[n] = loggers[n]

\* C26: the registry maps each name to at most one logger instance, and a
\* name once mapped to an instance is never unmapped or mapped to another
\* by a later get_logger, setup_log, get_json_logger, PGLoggerSingleton,
\* log_method or bind_logger operation.
C26_MappingForLife == []OneInstancePerName /\ [][MappingKept]_vars

\* Names mapped by get_logger, by log_method's default and by bind_logger's
\* default, after further calls.
C26_Witness ==
    /\ loggers["svc"] # 0
    /\ loggers[ModuleName] # 0
    /\ loggers["pgtask"] # 0
    /\ hist.calls = MaxCalls
    /\ bl.pc = "done"

(***************************************************************************)
(* Claims about the locks                                                  *)
(***************************************************************************)
\* A thread asking for the singleton lock does not hold the registry lock:
\* the singleton lock is taken first, never the reverse.
SingletonLockFirst ==
    \A t \in Threads : th[t].pc = "s_lock" => lock.owner # t

\* Thread t is back at its caller and holds neither lock.
Completed(t) == th[t].pc = "idle" /\ lock.owner # t /\ slock.owner # t

\* C28: concurrent calls of PGLoggerSingleton() and PGLogger.get_logger (the
\* calls through which log_method and bind_logger reach the locks) never
\* deadlock: the singleton lock is only taken before the registry lock, and
\* every call in the end releases its locks and completes.
C28_NoDeadlock ==
    /\ []SingletonLockFirst
    /\ \A t \in Threads : (th[t].pc # "idle") ~> Completed(t)

\* One thread constructs the singleton holding both locks while another
\* waits for one of them.
C28_Witness ==
    \E t, u \in Threads :
        /\ t # u
        /\ slock.owner = t
        /\ lock.owner = t
        /\ th[u].pc \in {"gl_lock", "s_lock"}

(***************************************************************************)
(* Claims about a failed construction                                      *)
(***************************************************************************)
\* The step in which a construction of name n fails.
FailureStep(n) == hist'.failed[n] = hist.failed[n] + 1

\* The failing step leaves the registry as it was, without the name, and
\* the registry lock free.
FailureLeavesNothing ==
    \A n \in Names :
        FailureStep(n) => /\ loggers' = loggers
                          /\ loggers[n] = 0
                          /\ lock' = NoLock

\* A call that finds the name missing after a failure constructs afresh:
\* it goes on to attach sinks to a logger whose handlers it has cleared.
ConstructsAfresh ==
    \A t \in Threads :
        (/\ th[t].pc = "gl_check"
         /\ hist.failed[th[t].name] >= 1
         /\ loggers[th[t].name] = 0
         /\ th'[t] # th[t])
            => /\ th'[t].pc = "gl_console"
               /\ obj'[th'[t].logger].handlers = <<>>

\* What the registry holds for a name after a failure is a whole
\* construction: the sinks of the constructing call and nothing left over.
NoPartialInstance ==
    \A n \in Names :
        (hist.failed[n] >= 1 /\ loggers[n] # 0)
            => /\ obj[loggers[n]].handlers = RequestedSinks(n, hist.ctor[n])
               /\ hist.started[n] = hist.failed[n] + 1
               /\ hist.inserted[n] = 1

\* C29: a construction that fails in get_logger leaves the registry
\* unchanged, without the name, and the lock released; a later call for the
\* name constructs afresh, clearing the handlers the failed attempt left,
\* and never returns a partially configured instance.
C29_FailedConstructionRetried ==
    /\ []NoPartialInstance
    /\ [][FailureLeavesNothing /\ ConstructsAfresh]_vars

\* One call for a name failed and raised, a later call for the same name
\* returned the instance the registry now holds.
C29_Witness ==
    \E t, u \in Threads :
        /\ t # u
        /\ th[t].pc = "idle" /\ th[t].raised
        /\ th[u].pc = "idle" /\ th[u].name = th[t].name
        /\ th[u].ret # 0 /\ th[u].ret = loggers[th[u].name]
        /\ Len(obj[th[u].ret].handlers) = 1
        /\ obj[th[u].ret].handlers[1].kind = "file"

(***************************************************************************)
(* Claims about exit(99) inside a wrapped function                         *)
(***************************************************************************)
\* error_logger was called with ignore_flag=False inside the wrapped
\* function and got as far as line 375.
ExitedInside == lm.pc = "done" /\ el.pc = "done" /\ el.outcome = "exit99"

\* The entries the wrapper logged for the call after the entry message.
LaterEntries ==
    {i \in 1..Len(lm.log) : lm.log[i].kind \in {"exit", "exception"}}

\* C30: when error_logger with ignore_flag=False runs inside a function
\* wrapped by log_method, the exit with status 99 passes through the
\* wrapper: no "Exiting" and no "Exception in" entry is logged for the
\* call, and an enclosing catch-all for ordinary errors does not turn the
\* exit into a response.
C30_ExitPassesThrough ==
    /\ el.outcome = "exit99" /\ lm.pc # "idle" => ~el.ignore_flag
    /\ ExitedInside =>
          /\ lm.outcome.kind = "exit"
          /\ lm.outcome.err = [type |-> "SystemExit", msg |-> "99"]
          /\ LaterEntries = {}
          /\ hd.pc = "done" => hd.outcome = "exit" /\ hd.response = NoResponse

\* The exit has gone through the wrapper and through the enclosing try.
C30_Witness ==
    /\ ExitedInside
    /\ hd.pc = "done"
    /\ Len(lm.log) = 1
    /\ Len(el.log) >= 1

====
